---- MODULE Spec2Model ----
(***************************************************************************)
(* mini_redis: the TTL-aware key-value store (KeyValueStore over           *)
(* ThreadSafeHashMap<std::string, StoreEntry>) driven by parallel threads  *)
(* and a monotonic clock, the ThreadPool that runs the connection tasks    *)
(* and the ExpiryManager that runs the background sweep.                   *)
(***************************************************************************)
EXTENDS Integers, Sequences, FiniteSets, TLC

\* ---------------------------------------------------------------- bounds
\* steady_clock readings range over 0..MaxTime (seconds since start).
MaxTime == 2
\* ttl_seconds arguments range over -1..MaxTTL.
MaxTTL == 1

\* the pool executes tasks 1..MaxTasks
MaxTasks == 3
\* start() is called at most MaxStarts times, stop() at most MaxStops times
MaxStarts == 2
MaxStops == 3
MaxSignals == 1
MaxConns == 1

Threads == {"t1", "t2"}
\* the thread that runs ExpiryManager::cleanup_loop
Sweeper == "t2"
\* the threads of ThreadPool::workers_
Workers == {"w1", "w2"}
\* the thread that owns the pool: it calls submit and then the destructor
Owner == "owner"
Tasks == 1 .. MaxTasks
\* the worker's local `task` before a dequeue
NoTask == 0
Keys == {"k1", "k2", "k3"}
Values == {"a", "b"}
TTLs == -1 .. MaxTTL

\* std::nullopt of StoreEntry::expires_at (and of a clock reading not taken)
NoExpiry == -1
\* std::nullopt returned by KeyValueStore::get
NotFound == "nullopt"
\* mutex_ held by no writer
NoThread == "none"

VARIABLES
  now,     \* std::chrono::steady_clock::now()
  map_,    \* ThreadSafeHashMap::map_ : key -> StoreEntry, DOMAIN = keys present
  mutex_,  \* ThreadSafeHashMap::mutex_ : [writer, readers]
  pc,      \* per thread: position inside the operation it is running
  loc,     \* per thread: the operation's locals
  last,    \* history: per key, the last set/remove applied to the map
  ev,      \* history: what the last step did (a return or a map mutation)
  set_last,        \* history: per key, the last write that held the exclusive
                   \* lock on it was an insertion, not an erasure
  task_queue_,     \* ThreadPool::task_queue_ : sequence of task ids
  queue_mutex_,    \* ThreadPool::queue_mutex_ : the thread holding it
  condition_,      \* ThreadPool::condition_ : the workers blocked in wait
  stop_requested_, \* ThreadPool::stop_requested_
  wpc,             \* per worker: position inside worker_loop
  wtask,           \* per worker: the task it dequeued (local `task`)
  opc,             \* the pool's owner thread: position in submit / ~ThreadPool
  submitted,       \* history: number of tasks pushed so far
  deq,             \* history: the dequeues, in order, as [task, by]
  runs,            \* history: per task, the executions that completed
  cleanup_thread_, \* ExpiryManager::cleanup_thread_ : joinable()
  em_stop_requested_, \* ExpiryManager::stop_requested_
  loop,            \* the sweeper thread: position inside cleanup_loop
  mpc,             \* the ExpiryManager's owner: position in start / stop
  mev,             \* history: the last start() or stop() that returned
  calls,           \* history: start() and stop() calls that returned so far
  spc,             \* position of the thread inside TcpServer::start and, after
                   \* it returned, inside ~TcpServer
  srv_stop_requested_,  \* TcpServer::stop_requested_
  accepted,        \* history: connections accept_connection() has returned
  late,            \* history: those of them accepted after stop() set the flag
  conn,            \* per connection: the Socket objects holding its fd, and
                   \* how often the fd was closed
  setup,           \* history: outcome of create_tcp / bind_to / start_listening
  main,            \* position of the main thread in main() and Application
  app_stop_requested_,  \* Application::stop_requested_
  issued,          \* history: ExpiryManager::stop() calls the Application made
  store_alive,     \* Application::store_ has not been destroyed
  hpc,             \* position of the SIGINT handler inside Application::stop
  hon,             \* the thread the handler interrupted, suspended under it
  sigs,            \* history: SIGINTs delivered so far
  log_mutex_,      \* Logger::log_mutex_ : the thread holding it
  rpc,             \* position of the thread serving a request: inside
                   \* HttpRequest::parse's caller, Router::route or a handler
  raw_request,     \* the text given to HttpRequest::parse
  request,         \* std::optional<HttpRequest>: {} or {the request}
  params,          \* RouteParams handed to the handler
  lookup,          \* the last get_header call: its name and what it returned
  response         \* the HttpResponse returned by Router::route, until sent

kv_vars == <<now, map_, mutex_, pc, loc, last, ev, set_last>>

pool_vars == <<task_queue_, queue_mutex_, condition_, stop_requested_,
               wpc, wtask, opc, submitted, deq, runs>>

expiry_vars == <<cleanup_thread_, em_stop_requested_, loop, mpc, mev, calls>>

server_vars == <<spc, srv_stop_requested_, accepted, late, conn, setup>>

app_vars == <<main, app_stop_requested_, issued, store_alive, hpc, hon, sigs,
              log_mutex_>>

http_vars == <<rpc, raw_request, request, params, lookup, response>>

net_vars == <<server_vars, app_vars, http_vars>>

vars == <<kv_vars, pool_vars, expiry_vars, net_vars>>

NoLocals == [none |-> TRUE]
NoEvent == [op |-> "none"]
NeverWritten == [op |-> "none"]

\* ------------------------------------------------------- StoreEntry, TTL
StoreEntry(v, e) == [value |-> v, expires_at |-> e]

\* is_expired comparing with > instead of >=
is_expired_strict(entry, clock) ==
  IF entry.expires_at = NoExpiry THEN FALSE
  ELSE clock > entry.expires_at

\* is_expired without the has_value() test
is_expired_unchecked(entry, clock) == clock >= entry.expires_at

\* KeyValueStore::is_expired, with the clock reading it takes

is_expired(entry, clock) ==
  IF entry.expires_at = NoExpiry THEN FALSE
  ELSE clock >= entry.expires_at

\* a calculate_expiry that gives only negative TTLs no expiry
calculate_expiry_zero_expires(ttl_seconds, clock) ==
  IF ttl_seconds < 0 THEN NoExpiry ELSE clock + ttl_seconds

\* KeyValueStore::calculate_expiry, with the clock reading it takes
calculate_expiry(ttl_seconds, clock) ==
  IF ttl_seconds <= 0 THEN NoExpiry
  ELSE clock + ttl_seconds

\* -------------------------------------------------- std::unordered_map
contains(m, k) == k \in DOMAIN m

\* an assignment that overwrites the value and keeps the old expires_at
insert_or_assign_value_only(m, k, e) ==
  [x \in DOMAIN m \cup {k} |->
     IF x # k THEN m[x]
     ELSE IF k \in DOMAIN m THEN StoreEntry(e.value, m[k].expires_at) ELSE e]

insert_or_assign(m, k, e) ==
  [x \in DOMAIN m \cup {k} |-> IF x = k THEN e ELSE m[x]]

\* an erase that leaves the key in the map
erase_nothing(m, k) == m

erase(m, k) == [x \in DOMAIN m \ {k} |-> m[x]]

\* optional<StoreEntry> as a set of at most one entry
find(m, k) == IF contains(m, k) THEN {m[k]} ELSE {}

\* ---------------------------------------------------- std::shared_mutex
\* an exclusive lock granted while readers hold the mutex in shared mode
can_lock_over_readers == mutex_.writer = NoThread

can_lock == mutex_.writer = NoThread /\ mutex_.readers = {}
\* a shared lock granted while a writer holds the mutex
can_lock_shared_always == TRUE

can_lock_shared == mutex_.writer = NoThread
lock(t) == [mutex_ EXCEPT !.writer = t]
unlock(t) == [mutex_ EXCEPT !.writer = NoThread]
lock_shared(t) == [mutex_ EXCEPT !.readers = @ \cup {t}]
unlock_shared(t) == [mutex_ EXCEPT !.readers = @ \ {t}]

\* ------------------------------------------------------------- history
\* the set call that is the last set/remove applied to key k, if any
Basis(k) == IF last[k].op = "set" THEN {last[k]} ELSE {}

\* physical state of a key: absent, present without TTL, present with TTL
KindOf(opt) ==
  IF opt = {} THEN "absent"
  ELSE IF \E e \in opt : e.expires_at = NoExpiry THEN "no-ttl" ELSE "ttl"

Kind(k) == KindOf(find(map_, k))

\* a get of key k that has seen an expired entry and has not yet removed it
\* learns that the entry was re-written (fresh) or removed again (not fresh)
MarkFresh(k, b) ==
  [u \in Threads |->
     IF pc[u] = "get_remove" /\ loc[u].key = k
     THEN [loc[u] EXCEPT !.fresh = b] ELSE loc[u]]

Return(t) == /\ pc' = [pc EXCEPT ![t] = "idle"]
             /\ loc' = [loc EXCEPT ![t] = NoLocals]

\* RouteParams before the router filled it in
NoParams == [path_suffix |-> <<>>]
\* no get_header call made yet
NoLookup == [name |-> <<>>, res |-> {}, called |-> FALSE]
\* no HttpResponse built yet
NoResponse == [status_code_ |-> 0, body_ |-> <<>>]

\* ------------------------------------------------------------- Socket
\* a connection no Socket object holds: every fd_ is -1
NoSocket == [holders |-> {}, closes |-> 0]

\* Socket(Socket&& other) : fd_(std::exchange(other.fd_, -1))
socket_move(c, from, to) ==
  IF from \in c.holders
  THEN [c EXCEPT !.holders = (@ \ {from}) \cup {to}]
  ELSE c

\* a Socket constructed from another that keeps its fd_
socket_copy(c, from, to) ==
  IF from \in c.holders THEN [c EXCEPT !.holders = @ \cup {to}] ELSE c

\* ~Socket -> close_socket(): if (fd_ >= 0) { ::close(fd_); fd_ = -1; }
close_socket(c, x) ==
  IF x \in c.holders
  THEN [holders |-> c.holders \ {x}, closes |-> c.closes + 1]
  ELSE c

\* the task's lambda: (*shared_handler)(std::move(*client)); the handler's
\* Socket parameter dies when the handler returns, the shared Socket when the
\* task is destroyed
handler_call(c) ==
  close_socket(close_socket(socket_move(c, "shared", "param"), "param"),
               "shared")

\* ---------------------------------------------------------------- Init
Init ==
  /\ now = 0
  /\ map_ = [x \in {} |-> StoreEntry("a", NoExpiry)]
  /\ mutex_ = [writer |-> NoThread, readers |-> {}]
  /\ pc = [t \in Threads |-> "idle"]
  /\ loc = [t \in Threads |-> NoLocals]
  /\ last = [k \in Keys |-> NeverWritten]
  /\ ev = NoEvent
  /\ set_last = [k \in Keys |-> FALSE]
  /\ task_queue_ = <<>>
  /\ queue_mutex_ = NoThread
  /\ condition_ = {}
  /\ stop_requested_ = FALSE
  /\ wpc = [w \in Workers |-> "lock"]
  /\ wtask = [w \in Workers |-> NoTask]
  /\ opc = "ready"
  /\ submitted = 0
  /\ deq = <<>>
  /\ runs = [i \in Tasks |-> 0]
  /\ cleanup_thread_ = FALSE
  /\ em_stop_requested_ = FALSE
  /\ loop = "none"
  /\ mpc = "idle"
  /\ mev = NoEvent
  /\ calls = [starts |-> 0, stops |-> 0, since |-> 0]
  /\ spc = "create"
  /\ srv_stop_requested_ = FALSE
  /\ accepted = 0
  /\ late = 0
  /\ conn = [i \in Tasks |-> NoSocket]
  /\ setup = "pending"
  /\ main = "run"
  /\ app_stop_requested_ = FALSE
  /\ issued = 0
  /\ store_alive = TRUE
  /\ hpc = "none"
  /\ hon = NoThread
  /\ sigs = 0
  /\ log_mutex_ = NoThread
  /\ rpc = "idle"
  /\ raw_request = <<>>
  /\ request = {}
  /\ params = NoParams
  /\ lookup = NoLookup
  /\ response = NoResponse

\* the monotonic clock advances
Tick ==
  /\ now < MaxTime
  /\ now' = now + 1
  /\ ev' = NoEvent
  /\ UNCHANGED <<map_, mutex_, pc, loc, last>>
  /\ UNCHANGED <<set_last, pool_vars, expiry_vars, net_vars>>

\* ------------------------------------------------ KeyValueStore::get
\* store_.get(key): take the shared lock
GetLock(t, k) ==
  /\ pc[t] = "idle"
  /\ can_lock_shared
  /\ mutex_' = lock_shared(t)
  /\ pc' = [pc EXCEPT ![t] = "get_find"]
  /\ loc' = [loc EXCEPT ![t] = [key |-> k]]
  /\ ev' = NoEvent
  /\ UNCHANGED <<now, map_, last>>
  /\ UNCHANGED <<set_last, pool_vars, expiry_vars, net_vars>>

\* store_.get(key): find, copy the entry, release; absent => return nullopt
GetFind(t) ==
  /\ pc[t] = "get_find"
  /\ mutex_' = unlock_shared(t)
  /\ LET k == loc[t].key IN
     IF ~contains(map_, k)
     THEN /\ Return(t)
          /\ ev' = [op |-> "get", t |-> t, key |-> k, res |-> NotFound,
                    path |-> "absent", basis |-> Basis(k), time |-> now,
                    fresh |-> FALSE]
     ELSE /\ pc' = [pc EXCEPT ![t] = "get_is_expired"]
          /\ loc' = [loc EXCEPT ![t] =
                       [key |-> k, entry |-> map_[k], basis |-> Basis(k)]]
          /\ ev' = NoEvent
  /\ UNCHANGED <<now, map_, last>>
  /\ UNCHANGED <<set_last, pool_vars, expiry_vars, net_vars>>

\* is_expired(entry.value()): expired => go remove, else return the value
GetIsExpired(t) ==
  /\ pc[t] = "get_is_expired"
  /\ IF is_expired(loc[t].entry, now)
     THEN /\ pc' = [pc EXCEPT ![t] = "get_remove"]
          /\ loc' = [loc EXCEPT ![t] =
                       [key |-> loc[t].key, entry |-> loc[t].entry,
                        basis |-> loc[t].basis, fresh |-> FALSE]]
          /\ ev' = NoEvent
     ELSE /\ Return(t)
          /\ ev' = [op |-> "get", t |-> t, key |-> loc[t].key,
                    res |-> loc[t].entry.value, path |-> "live",
                    basis |-> loc[t].basis, time |-> now, fresh |-> FALSE]
  /\ UNCHANGED <<now, map_, mutex_, last>>
  /\ UNCHANGED <<set_last, pool_vars, expiry_vars, net_vars>>

\* store_.remove(key) of the lazy deletion: take the exclusive lock
GetRemoveLock(t) ==
  /\ pc[t] = "get_remove"
  /\ can_lock
  /\ mutex_' = lock(t)
  /\ pc' = [pc EXCEPT ![t] = "get_erase"]
  /\ ev' = NoEvent
  /\ UNCHANGED <<now, map_, loc, last>>
  /\ UNCHANGED <<set_last, pool_vars, expiry_vars, net_vars>>

\* a lazy deletion that empties the map
GetEraseAll(t) ==
  /\ pc[t] = "get_erase"
  /\ LET k == loc[t].key IN
     /\ map_' = [x \in {} |-> map_[x]]
     /\ ev' = [op |-> "get", t |-> t, key |-> k, res |-> NotFound,
               path |-> "lazy", basis |-> loc[t].basis, time |-> now,
               fresh |-> loc[t].fresh, seen |-> loc[t].entry,
               prior |-> find(map_, k)]
     /\ set_last' = [x \in Keys |-> FALSE]
  /\ mutex_' = unlock(t)
  /\ Return(t)
  /\ UNCHANGED <<now, last>>
  /\ UNCHANGED <<pool_vars, expiry_vars, net_vars>>

\* store_.remove(key) of the lazy deletion: erase, release, return nullopt
GetErase(t) ==
  /\ pc[t] = "get_erase"
  /\ LET k == loc[t].key IN
     /\ map_' = erase(map_, k)
     /\ ev' = [op |-> "get", t |-> t, key |-> k, res |-> NotFound,
               path |-> "lazy", basis |-> loc[t].basis, time |-> now,
               fresh |-> loc[t].fresh, seen |-> loc[t].entry,
               prior |-> find(map_, k)]
     /\ set_last' = [set_last EXCEPT ![k] = FALSE]
  /\ mutex_' = unlock(t)
  /\ Return(t)
  /\ UNCHANGED <<now, last>>
  /\ UNCHANGED <<pool_vars, expiry_vars, net_vars>>

\* ------------------------------------------------ KeyValueStore::set
\* StoreEntry entry{value, calculate_expiry(ttl_seconds)}
SetCall(t, k, v, ttl) ==
  /\ pc[t] = "idle"
  /\ pc' = [pc EXCEPT ![t] = "set_lock"]
  /\ loc' = [loc EXCEPT ![t] =
               [key |-> k, ttl |-> ttl,
                entry |-> StoreEntry(v, calculate_expiry(ttl, now)),
                at |-> IF ttl > 0 THEN now ELSE NoExpiry]]
  /\ ev' = NoEvent
  /\ UNCHANGED <<now, map_, mutex_, last>>
  /\ UNCHANGED <<set_last, pool_vars, expiry_vars, net_vars>>

\* store_.set(key, entry): take the exclusive lock
SetLock(t) ==
  /\ pc[t] = "set_lock"
  /\ can_lock
  /\ mutex_' = lock(t)
  /\ pc' = [pc EXCEPT ![t] = "set_assign"]
  /\ ev' = NoEvent
  /\ UNCHANGED <<now, map_, loc, last>>
  /\ UNCHANGED <<set_last, pool_vars, expiry_vars, net_vars>>

\* store_.set(key, entry): insert_or_assign, release, return
SetAssign(t) ==
  /\ pc[t] = "set_assign"
  /\ LET k == loc[t].key IN
     /\ map_' = insert_or_assign(map_, k, loc[t].entry)
     /\ last' = [last EXCEPT ![k] =
                   [op |-> "set", value |-> loc[t].entry.value,
                    ttl |-> loc[t].ttl, at |-> loc[t].at]]
     /\ ev' = [op |-> "set", t |-> t, key |-> k,
               value |-> loc[t].entry.value, ttl |-> loc[t].ttl,
               at |-> loc[t].at, prior |-> find(map_, k)]
     /\ pc' = [pc EXCEPT ![t] = "idle"]
     /\ loc' = [MarkFresh(k, TRUE) EXCEPT ![t] = NoLocals]
     /\ set_last' = [set_last EXCEPT ![k] = TRUE]
  /\ mutex_' = unlock(t)
  /\ UNCHANGED now
  /\ UNCHANGED <<pool_vars, expiry_vars, net_vars>>

\* --------------------------------------------- KeyValueStore::remove
\* store_.remove(key): take the exclusive lock
RemoveLock(t, k) ==
  /\ pc[t] = "idle"
  /\ can_lock
  /\ mutex_' = lock(t)
  /\ pc' = [pc EXCEPT ![t] = "remove_erase"]
  /\ loc' = [loc EXCEPT ![t] = [key |-> k, locked |-> find(map_, k)]]
  /\ ev' = NoEvent
  /\ UNCHANGED <<now, map_, last>>
  /\ UNCHANGED <<set_last, pool_vars, expiry_vars, net_vars>>

\* remove reporting success whether or not a key was erased
remove_result_always(m, k) == TRUE

\* remove treating an expired entry as not found
remove_result_live(m, k) == contains(m, k) /\ ~is_expired(m[k], now)

\* what store_.remove(key) returns: map_.erase(key) > 0

remove_result(m, k) == contains(m, k)

\* store_.remove(key): erase, release, return whether one was erased
RemoveErase(t) ==
  /\ pc[t] = "remove_erase"
  /\ LET k == loc[t].key IN
     /\ map_' = erase(map_, k)
     /\ last' = [last EXCEPT ![k] =
                   [op |-> "remove", ok |-> remove_result(map_, k)]]
     /\ ev' = [op |-> "remove", t |-> t, key |-> k,
               res |-> remove_result(map_, k), locked |-> loc[t].locked,
               prior |-> find(map_, k), before |-> last[k], time |-> now]
     /\ pc' = [pc EXCEPT ![t] = "idle"]
     /\ loc' = [MarkFresh(k, FALSE) EXCEPT ![t] = NoLocals]
     /\ set_last' = [set_last EXCEPT ![k] = FALSE]
  /\ mutex_' = unlock(t)
  /\ UNCHANGED now
  /\ UNCHANGED <<pool_vars, expiry_vars, net_vars>>

\* ----------------------------------------------- KeyValueStore::keys
\* store_.for_each: take the shared lock, start the traversal
KeysLock(t) ==
  /\ pc[t] = "idle"
  /\ can_lock_shared
  /\ mutex_' = lock_shared(t)
  /\ pc' = [pc EXCEPT ![t] = "keys_scan"]
  /\ loc' = [loc EXCEPT ![t] =
               [rest |-> DOMAIN map_, result |-> <<>>,
                seen |-> [x \in {} |-> 0]]]
  /\ ev' = NoEvent
  /\ UNCHANGED <<now, map_, last>>
  /\ UNCHANGED <<set_last, pool_vars, expiry_vars, net_vars>>

\* the callback deleting the expired entry it skips
KeysVisitErase(t, k) ==
  /\ pc[t] = "keys_scan"
  /\ k \in loc[t].rest
  /\ map_' = IF is_expired(map_[k], now) THEN erase(map_, k) ELSE map_
  /\ loc' = [loc EXCEPT ![t] =
               [rest |-> loc[t].rest \ {k},
                result |-> IF ~is_expired(map_[k], now)
                           THEN Append(loc[t].result, k) ELSE loc[t].result,
                seen |-> [x \in DOMAIN loc[t].seen \cup {k} |->
                            IF x = k THEN now ELSE loc[t].seen[x]]]]
  /\ ev' = NoEvent
  /\ UNCHANGED <<now, mutex_, pc, last>>
  /\ UNCHANGED <<set_last, pool_vars, expiry_vars, net_vars>>

\* the callback pushing every key, expired or not
KeysVisitAll(t, k) ==
  /\ pc[t] = "keys_scan"
  /\ k \in loc[t].rest
  /\ loc' = [loc EXCEPT ![t] =
               [rest |-> loc[t].rest \ {k},
                result |-> Append(loc[t].result, k),
                seen |-> [x \in DOMAIN loc[t].seen \cup {k} |->
                            IF x = k THEN now ELSE loc[t].seen[x]]]]
  /\ ev' = NoEvent
  /\ UNCHANGED <<now, map_, mutex_, pc, last>>
  /\ UNCHANGED <<set_last, pool_vars, expiry_vars, net_vars>>

\* the callback on one entry: push_back the key unless is_expired(entry)
KeysVisit(t, k) ==
  /\ pc[t] = "keys_scan"
  /\ k \in loc[t].rest
  /\ loc' = [loc EXCEPT ![t] =
               [rest |-> loc[t].rest \ {k},
                result |-> IF ~is_expired(map_[k], now)
                           THEN Append(loc[t].result, k) ELSE loc[t].result,
                seen |-> [x \in DOMAIN loc[t].seen \cup {k} |->
                            IF x = k THEN now ELSE loc[t].seen[x]]]]
  /\ ev' = NoEvent
  /\ UNCHANGED <<now, map_, mutex_, pc, last>>
  /\ UNCHANGED <<set_last, pool_vars, expiry_vars, net_vars>>

\* end of the traversal: release, return result
KeysDone(t) ==
  /\ pc[t] = "keys_scan"
  /\ loc[t].rest = {}
  /\ mutex_' = unlock_shared(t)
  /\ ev' = [op |-> "keys", t |-> t, result |-> loc[t].result,
            seen |-> loc[t].seen]
  /\ Return(t)
  /\ UNCHANGED <<now, map_, last>>
  /\ UNCHANGED <<set_last, pool_vars, expiry_vars, net_vars>>

\* ------------------------------------- KeyValueStore::cleanup_expired
\* store_.remove_if: take the exclusive lock, start the scan
SweepLock(t) ==
  /\ pc[t] = "idle"
  /\ can_lock
  /\ mutex_' = lock(t)
  /\ pc' = [pc EXCEPT ![t] = "sweep_scan"]
  /\ loc' = [loc EXCEPT ![t] =
               [rest |-> DOMAIN map_, count |-> 0, pre |-> map_,
                t0 |-> now, seen |-> [x \in {} |-> 0]]]
  /\ ev' = NoEvent
  /\ UNCHANGED <<now, map_, last>>
  /\ UNCHANGED <<set_last, pool_vars, expiry_vars, net_vars>>

\* one iteration: predicate is_expired(entry) => erase and count
SweepVisit(t, k) ==
  /\ pc[t] = "sweep_scan"
  /\ k \in loc[t].rest
  /\ LET hit == is_expired(map_[k], now) IN
     /\ map_' = IF hit THEN erase(map_, k) ELSE map_
     /\ loc' = [(IF hit THEN MarkFresh(k, FALSE) ELSE loc) EXCEPT ![t] =
                  [rest |-> loc[t].rest \ {k},
                   count |-> IF hit THEN loc[t].count + 1 ELSE loc[t].count,
                   pre |-> loc[t].pre, t0 |-> loc[t].t0,
                   seen |-> [x \in DOMAIN loc[t].seen \cup {k} |->
                               IF x = k THEN now ELSE loc[t].seen[x]]]]
     /\ ev' = [op |-> "sweep_visit", t |-> t, key |-> k,
               prior |-> find(map_, k), time |-> now, removed |-> hit]
     /\ set_last' = IF hit THEN [set_last EXCEPT ![k] = FALSE] ELSE set_last
  /\ UNCHANGED <<now, mutex_, pc, last>>
  /\ UNCHANGED <<pool_vars, expiry_vars, net_vars>>

\* end of the scan: release, return removed_count (to cleanup_loop, which
\* goes on to wait_for, when the caller is the sweeper thread's loop)
SweepDone(t) ==
  /\ pc[t] = "sweep_scan"
  /\ loc[t].rest = {}
  /\ mutex_' = unlock(t)
  /\ ev' = [op |-> "cleanup", t |-> t, count |-> loc[t].count,
            pre |-> loc[t].pre, seen |-> loc[t].seen,
            t0 |-> loc[t].t0, t1 |-> now]
  /\ Return(t)
  /\ loop' = IF t = Sweeper /\ loop = "cleanup_expired" THEN "wait_for" ELSE loop
  /\ UNCHANGED <<now, map_, last, set_last>>
  /\ UNCHANGED <<pool_vars, cleanup_thread_, em_stop_requested_, mpc, mev,
                 calls, net_vars>>

\* ------------------------------------------- ThreadSafeHashMap::size
\* take the shared lock
SizeLock(t) ==
  /\ pc[t] = "idle"
  /\ can_lock_shared
  /\ mutex_' = lock_shared(t)
  /\ pc' = [pc EXCEPT ![t] = "size_read"]
  /\ loc' = [loc EXCEPT ![t] = NoLocals]
  /\ ev' = NoEvent
  /\ UNCHANGED <<now, map_, last>>
  /\ UNCHANGED <<set_last, pool_vars, expiry_vars, net_vars>>

\* return map_.size(), release
SizeRead(t) ==
  /\ pc[t] = "size_read"
  /\ mutex_' = unlock_shared(t)
  /\ ev' = [op |-> "size", t |-> t, res |-> Cardinality(DOMAIN map_)]
  /\ Return(t)
  /\ UNCHANGED <<now, map_, last>>
  /\ UNCHANGED <<set_last, pool_vars, expiry_vars, net_vars>>

\* ---------------------------------------------------------------- Next
\* Client threads C (the pool's workers running the request handlers) call
\* get, set, remove and keys with keys K, values V and TTLs L; sweeper
\* threads S (ExpiryManager::run_loop) call cleanup_expired.
NextOn(C, S, K, V, L) ==
  \/ Tick
  \/ \E t \in C, k \in K : GetLock(t, k)
  \/ \E t \in C : GetFind(t)
  \/ \E t \in C : GetIsExpired(t)
  \/ \E t \in C : GetRemoveLock(t)
  \/ \E t \in C : GetErase(t)
  \/ \E t \in C, k \in K, v \in V, ttl \in L : SetCall(t, k, v, ttl)
  \/ \E t \in C : SetLock(t)
  \/ \E t \in C : SetAssign(t)
  \/ \E t \in C, k \in K : RemoveLock(t, k)
  \/ \E t \in C : RemoveErase(t)
  \/ \E t \in C : KeysLock(t)
  \/ \E t \in C, k \in K : KeysVisit(t, k)
  \/ \E t \in C : KeysDone(t)
  \/ \E t \in S : SweepLock(t)
  \/ \E t \in S, k \in K : SweepVisit(t, k)
  \/ \E t \in S : SweepDone(t)

\* threads C calling size()
NextSize(C) ==
  \/ \E t \in C : SizeLock(t)
  \/ \E t \in C : SizeRead(t)

\* threads C mixing set, get, remove and size on keys K, no sweeper
NextMap(C, K, V, L) ==
  \/ Tick
  \/ \E t \in C, k \in K : GetLock(t, k)
  \/ \E t \in C : GetFind(t)
  \/ \E t \in C : GetIsExpired(t)
  \/ \E t \in C : GetRemoveLock(t)
  \/ \E t \in C : GetErase(t)
  \/ \E t \in C, k \in K, v \in V, ttl \in L : SetCall(t, k, v, ttl)
  \/ \E t \in C : SetLock(t)
  \/ \E t \in C : SetAssign(t)
  \/ \E t \in C, k \in K : RemoveLock(t, k)
  \/ \E t \in C : RemoveErase(t)
  \/ NextSize(C)

\* two clients (either may also sweep, as the tests do) racing on one key
Spec == Init /\ [][NextOn(Threads, Threads, {"k1"}, Values, TTLs)]_vars

\* one client and the sweeper thread, two keys
SpecSweep == Init /\ [][NextOn({"t1"}, {"t2"}, {"k1", "k2"}, Values, TTLs)]_vars

\* one client and the sweeper thread, three keys, one value, ttl >= 0
SpecKeys == Init /\ [][NextOn({"t1"}, {"t2"}, Keys, {"a"}, 0 .. MaxTTL)]_vars

\* two threads mixing set, get, remove and size on two keys
SpecMap == Init /\ [][NextMap(Threads, {"k1", "k2"}, {"a"}, 0 .. MaxTTL)]_vars

\* one client (get, set, remove, keys, size) and the sweeper thread, two keys
SpecAtomic ==
  Init /\ [][\/ NextOn({"t1"}, {"t2"}, {"k1", "k2"}, {"a"}, 0 .. MaxTTL)
             \/ NextSize({"t1"})]_vars

\* two threads, each calling every operation of the store (get, set, remove,
\* keys, size, cleanup_expired), one key
SpecLocks ==
  Init /\ [][\/ NextOn(Threads, Threads, {"k1"}, {"a"}, 0 .. MaxTTL)
             \/ NextSize(Threads)]_vars

\* ======================================================== ThreadPool
\* std::queue<Task>: front() and pop()
\* the task at the back of the queue
back(q) == q[Len(q)]

front(q) == Head(q)

\* a pop that leaves the front task in the queue
pop_none(q) == q

pop(q) == Tail(q)

\* the predicate of condition_.wait
wait_predicate(stop, q) == stop \/ q # <<>>

\* an exit test that ignores the queue
exit_on_stop(stop, q) == stop

\* the test after the wait: stop_requested_.load() && task_queue_.empty()
exit_condition(stop, q) == stop /\ q = <<>>

\* condition_.notify_one(): the sets of blocked workers it may wake
notify_one(c) == IF c = {} THEN {{}} ELSE {{w} : w \in c}

\* condition_.notify_all(): the blocked workers it wakes
notify_all(c) == c

\* the workers in `woken` leave the wait and go to re-acquire the mutex
Wake(woken) == [w \in Workers |-> IF w \in woken THEN "wake" ELSE wpc[w]]

\* worker_loop: std::unique_lock lock(queue_mutex_)
WorkerLock(w) ==
  /\ wpc[w] = "lock"
  /\ queue_mutex_ = NoThread
  /\ queue_mutex_' = w
  /\ wpc' = [wpc EXCEPT ![w] = "pred"]
  /\ UNCHANGED <<task_queue_, condition_, stop_requested_, wtask, opc,
                 submitted, deq, runs>>
  /\ UNCHANGED <<kv_vars, expiry_vars, net_vars>>

\* condition_.wait: evaluate the predicate with the mutex held
WorkerPred(w) ==
  /\ wpc[w] = "pred"
  /\ wpc' = [wpc EXCEPT ![w] =
               IF wait_predicate(stop_requested_, task_queue_)
               THEN "decide" ELSE "block"]
  /\ UNCHANGED <<task_queue_, queue_mutex_, condition_, stop_requested_,
                 wtask, opc, submitted, deq, runs>>
  /\ UNCHANGED <<kv_vars, expiry_vars, net_vars>>

\* condition_.wait: the predicate was false: release the mutex and block
WorkerBlock(w) ==
  /\ wpc[w] = "block"
  /\ queue_mutex_' = NoThread
  /\ condition_' = condition_ \cup {w}
  /\ wpc' = [wpc EXCEPT ![w] = "waiting"]
  /\ UNCHANGED <<task_queue_, stop_requested_, wtask, opc, submitted, deq,
                 runs>>
  /\ UNCHANGED <<kv_vars, expiry_vars, net_vars>>

\* condition_.wait: a blocked worker wakes without a notification
SpuriousWake(w) ==
  /\ wpc[w] = "waiting"
  /\ condition_' = condition_ \ {w}
  /\ wpc' = Wake({w})
  /\ UNCHANGED <<task_queue_, queue_mutex_, stop_requested_, wtask, opc,
                 submitted, deq, runs>>
  /\ UNCHANGED <<kv_vars, expiry_vars, net_vars>>

\* condition_.wait: a woken worker re-acquires the mutex, then re-evaluates
WorkerRelock(w) ==
  /\ wpc[w] = "wake"
  /\ queue_mutex_ = NoThread
  /\ queue_mutex_' = w
  /\ wpc' = [wpc EXCEPT ![w] = "pred"]
  /\ UNCHANGED <<task_queue_, condition_, stop_requested_, wtask, opc,
                 submitted, deq, runs>>
  /\ UNCHANGED <<kv_vars, expiry_vars, net_vars>>

\* a worker that keeps the mutex while it goes on to run the task
WorkerDecideHolding(w) ==
  /\ wpc[w] = "decide"
  /\ IF exit_condition(stop_requested_, task_queue_)
     THEN /\ wpc' = [wpc EXCEPT ![w] = "exited"]
          /\ queue_mutex_' = NoThread
          /\ UNCHANGED <<task_queue_, wtask, deq>>
     ELSE /\ wtask' = [wtask EXCEPT ![w] = front(task_queue_)]
          /\ task_queue_' = pop(task_queue_)
          /\ deq' = Append(deq, [task |-> front(task_queue_), by |-> w])
          /\ wpc' = [wpc EXCEPT ![w] = "run"]
          /\ UNCHANGED queue_mutex_
  /\ UNCHANGED <<condition_, stop_requested_, opc, submitted, runs>>
  /\ UNCHANGED <<kv_vars, expiry_vars, net_vars>>

\* after the wait: return when stopping with an empty queue, else move the
\* front task out, pop it and release the mutex
WorkerDecide(w) ==
  /\ wpc[w] = "decide"
  /\ IF exit_condition(stop_requested_, task_queue_)
     THEN /\ wpc' = [wpc EXCEPT ![w] = "exited"]
          /\ UNCHANGED <<task_queue_, wtask, deq>>
     ELSE /\ wtask' = [wtask EXCEPT ![w] = front(task_queue_)]
          /\ task_queue_' = pop(task_queue_)
          /\ deq' = Append(deq, [task |-> front(task_queue_), by |-> w])
          /\ wpc' = [wpc EXCEPT ![w] = "run"]
  /\ queue_mutex_' = NoThread
  /\ UNCHANGED <<condition_, stop_requested_, opc, submitted, runs>>
  /\ UNCHANGED <<kv_vars, expiry_vars, net_vars>>

\* task(): the task runs to its end outside the lock; back to the loop top
WorkerRun(w) ==
  /\ wpc[w] = "run"
  /\ runs' = [runs EXCEPT ![wtask[w]] = @ + 1]
  /\ wtask' = [wtask EXCEPT ![w] = NoTask]
  /\ wpc' = [wpc EXCEPT ![w] = "lock"]
  /\ conn' = [conn EXCEPT ![wtask[w]] = handler_call(@)]
  /\ UNCHANGED <<task_queue_, queue_mutex_, condition_, stop_requested_, opc,
                 submitted, deq>>
  /\ UNCHANGED <<spc, srv_stop_requested_, accepted, late, setup, app_vars>>
  /\ UNCHANGED http_vars
  /\ UNCHANGED <<kv_vars, expiry_vars>>

\* submit: std::lock_guard lock(queue_mutex_)
SubmitLock ==
  /\ opc = "ready"
  /\ submitted < MaxTasks
  /\ queue_mutex_ = NoThread
  /\ queue_mutex_' = Owner
  /\ opc' = "push"
  /\ UNCHANGED <<task_queue_, condition_, stop_requested_, wpc, wtask,
                 submitted, deq, runs>>
  /\ UNCHANGED <<kv_vars, expiry_vars, net_vars>>

\* submit: task_queue_.push(task), release the mutex
SubmitPush ==
  /\ opc = "push"
  /\ task_queue_' = Append(task_queue_, submitted + 1)
  /\ submitted' = submitted + 1
  /\ queue_mutex_' = NoThread
  /\ opc' = "notify_one"
  /\ UNCHANGED <<condition_, stop_requested_, wpc, wtask, deq, runs>>
  /\ UNCHANGED <<kv_vars, expiry_vars, net_vars>>

\* a submit that returns without notifying
SubmitNotifyNobody ==
  /\ opc = "notify_one"
  /\ opc' = "ready"
  /\ UNCHANGED <<task_queue_, queue_mutex_, condition_, stop_requested_, wpc,
                 wtask, submitted, deq, runs>>
  /\ UNCHANGED <<kv_vars, expiry_vars, net_vars>>

\* submit: condition_.notify_one(), return
SubmitNotify ==
  /\ opc = "notify_one"
  /\ \E woken \in notify_one(condition_) :
       /\ condition_' = condition_ \ woken
       /\ wpc' = Wake(woken)
  /\ opc' = "ready"
  /\ UNCHANGED <<task_queue_, queue_mutex_, stop_requested_, wtask,
                 submitted, deq, runs>>
  /\ UNCHANGED <<kv_vars, expiry_vars, net_vars>>

\* ~ThreadPool: stop_requested_.store(true)
TeardownStore ==
  /\ opc = "ready"
  /\ stop_requested_' = TRUE
  /\ opc' = "notify_all"
  /\ UNCHANGED <<task_queue_, queue_mutex_, condition_, wpc, wtask,
                 submitted, deq, runs>>
  /\ UNCHANGED <<kv_vars, expiry_vars, net_vars>>

\* ~ThreadPool: condition_.notify_all()
TeardownNotifyAll ==
  /\ opc = "notify_all"
  /\ condition_' = condition_ \ notify_all(condition_)
  /\ wpc' = Wake(notify_all(condition_))
  /\ opc' = "join"
  /\ UNCHANGED <<task_queue_, queue_mutex_, stop_requested_, wtask,
                 submitted, deq, runs>>
  /\ UNCHANGED <<kv_vars, expiry_vars, net_vars>>

\* ~ThreadPool: the join loop returns once every worker_loop has returned
TeardownJoin ==
  /\ opc = "join"
  /\ \A w \in Workers : wpc[w] = "exited"
  /\ opc' = "destroyed"
  /\ UNCHANGED <<task_queue_, queue_mutex_, condition_, stop_requested_, wpc,
                 wtask, submitted, deq, runs>>
  /\ UNCHANGED <<kv_vars, expiry_vars, net_vars>>

\* the steps of worker w that the scheduler runs (a spurious wake-up is
\* permitted, never guaranteed)
WorkerStep(w) ==
  \/ WorkerLock(w)
  \/ WorkerPred(w)
  \/ WorkerBlock(w)
  \/ WorkerRelock(w)
  \/ WorkerDecide(w)
  \/ WorkerRun(w)

\* the steps that finish a call the owner thread has begun
OwnerStep ==
  \/ SubmitPush
  \/ SubmitNotify
  \/ TeardownNotifyAll
  \/ TeardownJoin

NextPool ==
  \/ \E w \in Workers : WorkerStep(w)
  \/ \E w \in Workers : SpuriousWake(w)
  \/ SubmitLock
  \/ TeardownStore
  \/ OwnerStep

\* the pool: MaxTasks tasks submitted by the owner, two workers
SpecPool == Init /\ [][NextPool]_vars

\* the same, with every thread scheduled as long as it can take a step
SpecPoolFair ==
  /\ SpecPool
  /\ \A w \in Workers : WF_vars(WorkerStep(w))
  /\ WF_vars(OwnerStep)

\* ===================================================== ExpiryManager
\* a start() that leaves the stop flag as the previous stop() set it
StartStoreNoReset ==
  /\ mpc = "idle"
  /\ calls.starts < MaxStarts
  /\ mpc' = "start_thread"
  /\ UNCHANGED <<cleanup_thread_, em_stop_requested_, loop, mev, calls>>
  /\ UNCHANGED <<kv_vars, pool_vars, net_vars>>

\* start(): stop_requested_.store(false)
StartStore ==
  /\ mpc = "idle"
  /\ calls.starts < MaxStarts
  /\ em_stop_requested_' = FALSE
  /\ mpc' = "start_thread"
  /\ UNCHANGED <<cleanup_thread_, loop, mev, calls>>
  /\ UNCHANGED <<kv_vars, pool_vars, net_vars>>

\* start(): cleanup_thread_ = std::thread(cleanup_loop); assigning to a
\* thread that is still joinable calls std::terminate
StartThread ==
  /\ mpc = "start_thread"
  /\ IF cleanup_thread_
     THEN /\ mpc' = "terminated"
          /\ UNCHANGED <<cleanup_thread_, loop, mev, calls>>
     ELSE /\ cleanup_thread_' = TRUE
          /\ loop' = "while"
          /\ mpc' = "idle"
          /\ mev' = [op |-> "start"]
          /\ calls' = [starts |-> calls.starts + 1, stops |-> calls.stops,
                       since |-> 0]
  /\ UNCHANGED em_stop_requested_
  /\ UNCHANGED <<kv_vars, pool_vars, net_vars>>

\* stop(): if (!cleanup_thread_.joinable()) return
StopCheck ==
  /\ mpc = "idle"
  /\ calls.stops < MaxStops
  /\ IF ~cleanup_thread_
     THEN /\ mev' = [op |-> "stop", joined |-> FALSE, nth |-> calls.since + 1,
                     started |-> calls.starts > 0]
          /\ calls' = [calls EXCEPT !.stops = @ + 1, !.since = @ + 1]
          /\ UNCHANGED mpc
     ELSE /\ mpc' = "stop_store"
          /\ UNCHANGED <<mev, calls>>
  /\ UNCHANGED <<cleanup_thread_, em_stop_requested_, loop>>
  /\ UNCHANGED <<kv_vars, pool_vars, net_vars>>

\* stop(): stop_requested_.store(true)
StopStore ==
  /\ mpc = "stop_store"
  /\ em_stop_requested_' = TRUE
  /\ mpc' = "stop_notify"
  /\ UNCHANGED <<cleanup_thread_, loop, mev, calls>>
  /\ UNCHANGED <<kv_vars, pool_vars, net_vars>>

\* stop(): sleep_cv_.notify_all() wakes the loop if it is blocked in wait_for
StopNotify ==
  /\ mpc = "stop_notify"
  /\ loop' = IF loop = "waiting" THEN "wake" ELSE loop
  /\ mpc' = "stop_join"
  /\ UNCHANGED <<cleanup_thread_, em_stop_requested_, mev, calls>>
  /\ UNCHANGED <<kv_vars, pool_vars, net_vars>>

\* a join that returns while the loop is still running
StopJoinEarly ==
  /\ mpc = "stop_join"
  /\ cleanup_thread_' = FALSE
  /\ mpc' = "idle"
  /\ mev' = [op |-> "stop", joined |-> TRUE, nth |-> calls.since + 1,
             started |-> calls.starts > 0]
  /\ calls' = [calls EXCEPT !.stops = @ + 1, !.since = @ + 1]
  /\ UNCHANGED <<em_stop_requested_, loop>>
  /\ UNCHANGED <<kv_vars, pool_vars, net_vars>>

\* stop(): cleanup_thread_.join() returns when cleanup_loop has returned
StopJoin ==
  /\ mpc = "stop_join"
  /\ loop = "exited"
  /\ cleanup_thread_' = FALSE
  /\ loop' = "none"
  /\ mpc' = "idle"
  /\ mev' = [op |-> "stop", joined |-> TRUE, nth |-> calls.since + 1,
             started |-> calls.starts > 0]
  /\ calls' = [calls EXCEPT !.stops = @ + 1, !.since = @ + 1]
  /\ UNCHANGED em_stop_requested_
  /\ UNCHANGED <<kv_vars, pool_vars, net_vars>>

\* cleanup_loop: while (!stop_requested_.load())
LoopWhile ==
  /\ loop = "while"
  /\ mpc # "terminated"
  /\ loop' = IF em_stop_requested_ THEN "exited" ELSE "cleanup_expired"
  /\ UNCHANGED <<cleanup_thread_, em_stop_requested_, mpc, mev, calls>>
  /\ UNCHANGED <<kv_vars, pool_vars, net_vars>>

\* cleanup_loop: store_.cleanup_expired() is called (it returns to the loop
\* in SweepDone)
LoopCleanup ==
  /\ loop = "cleanup_expired"
  /\ mpc # "terminated"
  /\ SweepLock(Sweeper)

\* cleanup_loop: lock sleep_mutex_; wait_for evaluates its predicate first
LoopWaitFor ==
  /\ loop = "wait_for"
  /\ mpc # "terminated"
  /\ loop' = IF em_stop_requested_ THEN "while" ELSE "block"
  /\ UNCHANGED <<cleanup_thread_, em_stop_requested_, mpc, mev, calls>>
  /\ UNCHANGED <<kv_vars, pool_vars, net_vars>>

\* wait_for: the predicate was false: release sleep_mutex_ and block
LoopBlock ==
  /\ loop = "block"
  /\ mpc # "terminated"
  /\ loop' = "waiting"
  /\ UNCHANGED <<cleanup_thread_, em_stop_requested_, mpc, mev, calls>>
  /\ UNCHANGED <<kv_vars, pool_vars, net_vars>>

\* a loop that ends when its first wait_for times out
LoopTimeoutExit ==
  /\ loop = "waiting"
  /\ mpc # "terminated"
  /\ loop' = "exited"
  /\ UNCHANGED <<cleanup_thread_, em_stop_requested_, mpc, mev, calls>>
  /\ UNCHANGED <<kv_vars, pool_vars, net_vars>>

\* wait_for: interval_ has elapsed: it returns and the loop goes round
LoopTimeout ==
  /\ loop = "waiting"
  /\ mpc # "terminated"
  /\ loop' = "while"
  /\ UNCHANGED <<cleanup_thread_, em_stop_requested_, mpc, mev, calls>>
  /\ UNCHANGED <<kv_vars, pool_vars, net_vars>>

\* wait_for: the blocked loop wakes without notification or timeout
LoopSpuriousWake ==
  /\ loop = "waiting"
  /\ mpc # "terminated"
  /\ loop' = "wake"
  /\ UNCHANGED <<cleanup_thread_, em_stop_requested_, mpc, mev, calls>>
  /\ UNCHANGED <<kv_vars, pool_vars, net_vars>>

\* wait_for: woken, it re-evaluates the predicate: return or block again
LoopWake ==
  /\ loop = "wake"
  /\ mpc # "terminated"
  /\ loop' = IF em_stop_requested_ THEN "while" ELSE "block"
  /\ UNCHANGED <<cleanup_thread_, em_stop_requested_, mpc, mev, calls>>
  /\ UNCHANGED <<kv_vars, pool_vars, net_vars>>

\* the manager's owner calling start() and stop(), the sweeper thread
\* running cleanup_loop on the store, and a client setting keys K
NextExpiry(K, V, L) ==
  \/ StartStore
  \/ StartThread
  \/ StopCheck
  \/ StopStore
  \/ StopNotify
  \/ StopJoin
  \/ LoopWhile
  \/ LoopCleanup
  \/ \E k \in K : SweepVisit(Sweeper, k)
  \/ SweepDone(Sweeper)
  \/ LoopWaitFor
  \/ LoopBlock
  \/ LoopTimeout
  \/ LoopSpuriousWake
  \/ LoopWake
  \/ Tick
  \/ \E k \in K, v \in V, ttl \in L : SetCall("t1", k, v, ttl)
  \/ SetLock("t1")
  \/ SetAssign("t1")

\* the sweeper over a store with one key
SpecExpiry == Init /\ [][NextExpiry({"k1"}, {"a"}, 0 .. MaxTTL)]_vars

\* the steps of the sweeper thread inside cleanup_loop
LoopStep ==
  \/ LoopWhile
  \/ \E k \in {"k1"} : SweepVisit(Sweeper, k)
  \/ SweepDone(Sweeper)
  \/ LoopWaitFor
  \/ LoopBlock
  \/ LoopWake

\* the steps of the owner inside a start() or stop() call it has entered
ManagerStep == StartThread \/ StopStore \/ StopNotify \/ StopJoin

\* the sweeper over a store with one key, set with a TTL of one second, under
\* fair scheduling: a thread that can take its next step takes it; the
\* sweeper gets the store's lock if it is free again and again; the interval
\* of a wait_for runs out however often the wait is woken before
SpecExpiryFair ==
  /\ Init /\ [][NextExpiry({"k1"}, {"a"}, {1})]_vars
  /\ WF_vars(LoopStep)
  /\ SF_vars(LoopCleanup)
  /\ SF_vars(LoopTimeout)
  /\ WF_vars(ManagerStep)
  /\ WF_vars(SetAssign("t1"))

\* ========================================================= TcpServer
\* start(): Socket::create_tcp() fails => log, return
ServerCreate ==
  /\ spc = "create"
  /\ \E ok \in BOOLEAN :
       /\ spc' = IF ok THEN "bind" ELSE "returned"
       /\ setup' = IF ok THEN setup ELSE "failed"
  /\ UNCHANGED <<srv_stop_requested_, accepted, late, conn, app_vars>>
  /\ UNCHANGED http_vars
  /\ UNCHANGED <<kv_vars, pool_vars, expiry_vars>>

\* a failed bind_to after which start() goes on to the accept loop
ServerBindGoesOn ==
  /\ spc = "bind"
  /\ \E ok \in BOOLEAN :
       /\ spc' = IF ok THEN "listen" ELSE "while"
       /\ setup' = IF ok THEN setup ELSE "failed"
  /\ UNCHANGED <<srv_stop_requested_, accepted, late, conn, app_vars>>
  /\ UNCHANGED http_vars
  /\ UNCHANGED <<kv_vars, pool_vars, expiry_vars>>

\* start(): server_socket->bind_to(port_) fails => log, return
ServerBind ==
  /\ spc = "bind"
  /\ \E ok \in BOOLEAN :
       /\ spc' = IF ok THEN "listen" ELSE "returned"
       /\ setup' = IF ok THEN setup ELSE "failed"
  /\ UNCHANGED <<srv_stop_requested_, accepted, late, conn, app_vars>>
  /\ UNCHANGED http_vars
  /\ UNCHANGED <<kv_vars, pool_vars, expiry_vars>>

\* start(): server_socket->start_listening() fails => log, return
ServerListen ==
  /\ spc = "listen"
  /\ \E ok \in BOOLEAN :
       /\ spc' = IF ok THEN "while" ELSE "returned"
       /\ setup' = IF ok THEN "ok" ELSE "failed"
  /\ UNCHANGED <<srv_stop_requested_, accepted, late, conn, app_vars>>
  /\ UNCHANGED http_vars
  /\ UNCHANGED <<kv_vars, pool_vars, expiry_vars>>

\* an accept loop that does not read the stop flag
ServerWhileDeaf ==
  /\ spc = "while"
  /\ spc' = "accept"
  /\ UNCHANGED <<srv_stop_requested_, accepted, late, conn, setup, app_vars>>
  /\ UNCHANGED http_vars
  /\ UNCHANGED <<kv_vars, pool_vars, expiry_vars>>

\* start(): while (!stop_requested_.load()); after the loop: log, return
ServerWhile ==
  /\ spc = "while"
  /\ spc' = IF srv_stop_requested_ THEN "returned" ELSE "accept"
  /\ UNCHANGED <<srv_stop_requested_, accepted, late, conn, setup, app_vars>>
  /\ UNCHANGED http_vars
  /\ UNCHANGED <<kv_vars, pool_vars, expiry_vars>>

\* accept_connection(): ::accept blocks until a client connects and returns
\* Socket(client_fd)
ServerAccept ==
  /\ spc = "accept"
  /\ accepted < MaxTasks
  /\ accepted' = accepted + 1
  /\ late' = IF srv_stop_requested_ THEN late + 1 ELSE late
  /\ conn' = [conn EXCEPT ![accepted + 1] = [holders |-> {"result"},
                                             closes |-> 0]]
  /\ spc' = "wrap"
  /\ UNCHANGED <<srv_stop_requested_, setup, app_vars, http_vars>>
  /\ UNCHANGED <<kv_vars, pool_vars, expiry_vars>>

\* accept_connection(): ::accept fails => std::nullopt; the loop continues
ServerAcceptFails ==
  /\ spc = "accept"
  /\ spc' = "while"
  /\ UNCHANGED <<srv_stop_requested_, accepted, late, conn, setup, app_vars>>
  /\ UNCHANGED http_vars
  /\ UNCHANGED <<kv_vars, pool_vars, expiry_vars>>

\* a shared Socket made from the accepted one without taking its fd away
ServerWrapCopy ==
  /\ spc = "wrap"
  /\ conn' = [conn EXCEPT ![accepted] = socket_copy(@, "result", "shared")]
  /\ spc' = "submit"
  /\ UNCHANGED <<srv_stop_requested_, accepted, late, setup, app_vars>>
  /\ UNCHANGED http_vars
  /\ UNCHANGED <<kv_vars, pool_vars, expiry_vars>>

\* start(): client = std::make_shared<Socket>(std::move(client_socket.value()))
ServerWrap ==
  /\ spc = "wrap"
  /\ conn' = [conn EXCEPT ![accepted] = socket_move(@, "result", "shared")]
  /\ spc' = "submit"
  /\ UNCHANGED <<srv_stop_requested_, accepted, late, setup, app_vars>>
  /\ UNCHANGED http_vars
  /\ UNCHANGED <<kv_vars, pool_vars, expiry_vars>>

\* start(): thread_pool_.submit(lambda) is entered for the wrapped connection
ServerSubmit ==
  /\ spc = "submit"
  /\ submitted < accepted
  /\ SubmitLock

\* start(): submit has returned; the iteration ends, client_socket (moved
\* from) is destroyed, back to the loop condition
ServerSubmitted ==
  /\ spc = "submit"
  /\ submitted = accepted
  /\ opc = "ready"
  /\ conn' = [conn EXCEPT ![accepted] = close_socket(@, "result")]
  /\ spc' = "while"
  /\ UNCHANGED <<srv_stop_requested_, accepted, late, setup, app_vars>>
  /\ UNCHANGED http_vars
  /\ UNCHANGED <<kv_vars, pool_vars, expiry_vars>>

\* TcpServer::stop(), called by another thread: stop_requested_.store(true)
ServerStop ==
  /\ spc # "destroyed"
  /\ srv_stop_requested_' = TRUE
  /\ UNCHANGED <<spc, accepted, late, conn, setup, app_vars, http_vars>>
  /\ UNCHANGED <<kv_vars, pool_vars, expiry_vars>>

\* ~TcpServer, after start() returned: stop()
ServerDtorStop ==
  /\ spc = "returned"
  /\ srv_stop_requested_' = TRUE
  /\ spc' = "pool_dtor"
  /\ UNCHANGED <<accepted, late, conn, setup, app_vars, http_vars>>
  /\ UNCHANGED <<kv_vars, pool_vars, expiry_vars>>

\* ~TcpServer: the member thread_pool_ is destroyed
ServerDtorPool ==
  /\ spc = "pool_dtor"
  /\ TeardownStore

\* ~TcpServer: ~ThreadPool has returned
ServerDestroyed ==
  /\ spc = "pool_dtor"
  /\ opc = "destroyed"
  /\ spc' = "destroyed"
  /\ UNCHANGED <<srv_stop_requested_, accepted, late, conn, setup, app_vars>>
  /\ UNCHANGED http_vars
  /\ UNCHANGED <<kv_vars, pool_vars, expiry_vars>>

\* the steps of the thread that runs start() and then destroys the server,
\* but for accept returning, which is up to the clients
ServerStep ==
  \/ ServerCreate
  \/ ServerBind
  \/ ServerListen
  \/ ServerWhile
  \/ ServerWrap
  \/ ServerSubmit
  \/ ServerSubmitted
  \/ ServerDtorStop
  \/ ServerDtorPool
  \/ ServerDestroyed
  \/ OwnerStep

\* accept_connection() returns: a client connected, or ::accept failed
AcceptReturns == ServerAccept \/ ServerAcceptFails

NextServer ==
  \/ ServerStep
  \/ AcceptReturns
  \/ ServerStop
  \/ \E w \in Workers : WorkerStep(w)
  \/ \E w \in Workers : SpuriousWake(w)

\* a TcpServer whose owner calls start() and destroys it afterwards, up to
\* MaxTasks clients, and another thread calling stop()
SpecServer == Init /\ [][NextServer]_vars

\* the same, with every thread scheduled as long as it can take a step and
\* submit getting the queue's mutex if it is free again and again; nothing
\* obliges a client to connect or another thread to call stop()
SpecServerFair ==
  /\ SpecServer
  /\ WF_vars(ServerStep)
  /\ SF_vars(ServerSubmit)
  /\ \A w \in Workers : WF_vars(WorkerStep(w))

\* ======================================================= Application
\* the process has not been ended by std::terminate
Alive == mpc # "terminated"

\* no ExpiryManager::start() or stop() call is in progress
NoManagerCall == mpc = "idle" /\ calls.stops = issued

\* run(): expiry_manager_.start() is entered
AppRunStart ==
  /\ main = "run"
  /\ calls.starts = 0
  /\ NoManagerCall
  /\ StartStore

\* run(): start() has returned; TcpServer server(port_, thread_count_) is
\* constructed and server.start(...) entered
AppServerCtor ==
  /\ main = "run"
  /\ calls.starts = 1
  /\ mpc = "idle"
  /\ main' = "server"
  /\ UNCHANGED <<app_stop_requested_, issued, store_alive, hpc, hon, sigs,
                 log_mutex_>>
  /\ UNCHANGED <<kv_vars, pool_vars, expiry_vars, server_vars, http_vars>>

\* run() returns after server.start() returned and the local server was
\* destroyed; main() logs and returns, ~Application begins
AppRunReturns ==
  /\ main = "server"
  /\ spc = "destroyed"
  /\ main' = "app_dtor"
  /\ UNCHANGED <<app_stop_requested_, issued, store_alive, hpc, hon, sigs,
                 log_mutex_>>
  /\ UNCHANGED <<kv_vars, pool_vars, expiry_vars, server_vars, http_vars>>

\* ~Application -> stop(): if (stop_requested_.exchange(true)) return
AppDtorStop ==
  /\ main = "app_dtor"
  /\ app_stop_requested_' = TRUE
  /\ main' = IF app_stop_requested_ THEN "em_dtor" ELSE "app_stop"
  /\ UNCHANGED <<issued, store_alive, hpc, hon, sigs, log_mutex_>>
  /\ UNCHANGED <<kv_vars, pool_vars, expiry_vars, server_vars, http_vars>>

\* stop(): Logger::info(...) takes and releases log_mutex_; then
\* expiry_manager_.stop() is entered
AppStopLog ==
  /\ main = "app_stop"
  /\ log_mutex_ = NoThread
  /\ NoManagerCall
  /\ issued' = issued + 1
  /\ main' = "app_stop_wait"
  /\ UNCHANGED <<app_stop_requested_, store_alive, hpc, hon, sigs, log_mutex_>>
  /\ UNCHANGED <<kv_vars, pool_vars, expiry_vars, server_vars, http_vars>>

\* stop(): expiry_manager_.stop() has returned, and so does ~Application's
\* body; the members are destroyed next
AppStopReturned ==
  /\ main = "app_stop_wait"
  /\ NoManagerCall
  /\ main' = "em_dtor"
  /\ UNCHANGED <<app_stop_requested_, issued, store_alive, hpc, hon, sigs,
                 log_mutex_>>
  /\ UNCHANGED <<kv_vars, pool_vars, expiry_vars, server_vars, http_vars>>

\* an expiry_manager_ destroyed without stopping its thread
AppEmDtorSkip ==
  /\ main = "em_dtor"
  /\ main' = "store_dtor"
  /\ UNCHANGED <<app_stop_requested_, issued, store_alive, hpc, hon, sigs,
                 log_mutex_>>
  /\ UNCHANGED <<kv_vars, pool_vars, expiry_vars, server_vars, http_vars>>

\* members die in reverse declaration order: kv_handler_, router_, then
\* expiry_manager_: ~ExpiryManager -> stop() is entered
AppEmDtor ==
  /\ main = "em_dtor"
  /\ NoManagerCall
  /\ issued' = issued + 1
  /\ main' = "em_dtor_wait"
  /\ UNCHANGED <<app_stop_requested_, store_alive, hpc, hon, sigs, log_mutex_>>
  /\ UNCHANGED <<kv_vars, pool_vars, expiry_vars, server_vars, http_vars>>

\* ~ExpiryManager: stop() has returned
AppEmDtorReturned ==
  /\ main = "em_dtor_wait"
  /\ NoManagerCall
  /\ main' = "store_dtor"
  /\ UNCHANGED <<app_stop_requested_, issued, store_alive, hpc, hon, sigs,
                 log_mutex_>>
  /\ UNCHANGED <<kv_vars, pool_vars, expiry_vars, server_vars, http_vars>>

\* the last member to die is store_; main() has exited
AppStoreDtor ==
  /\ main = "store_dtor"
  /\ store_alive' = FALSE
  /\ main' = "exited"
  /\ UNCHANGED <<app_stop_requested_, issued, hpc, hon, sigs, log_mutex_>>
  /\ UNCHANGED <<kv_vars, pool_vars, expiry_vars, server_vars, http_vars>>

\* the threads of the process a signal can interrupt
Interruptible ==
  (IF main # "exited" THEN {"main"} ELSE {})
    \cup {w \in Workers : main = "server" /\ wpc[w] # "exited"}
    \cup {t \in {Sweeper} : loop \notin {"none", "exited"}}

\* SIGINT: signal_handler runs on thread t, which is suspended under it, and
\* calls g_app->stop()
SigDeliver(t) ==
  /\ sigs < MaxSignals
  /\ hpc = "none"
  /\ NoManagerCall
  /\ t \in Interruptible
  /\ hon' = t
  /\ hpc' = "exchange"
  /\ sigs' = sigs + 1
  /\ UNCHANGED <<main, app_stop_requested_, issued, store_alive, log_mutex_>>
  /\ UNCHANGED <<kv_vars, pool_vars, expiry_vars, server_vars, http_vars>>

\* handler, in stop(): if (stop_requested_.exchange(true)) return
SigExchange ==
  /\ hpc = "exchange"
  /\ app_stop_requested_' = TRUE
  /\ hpc' = IF app_stop_requested_ THEN "none" ELSE "log"
  /\ hon' = IF app_stop_requested_ THEN NoThread ELSE hon
  /\ UNCHANGED <<main, issued, store_alive, sigs, log_mutex_>>
  /\ UNCHANGED <<kv_vars, pool_vars, expiry_vars, server_vars, http_vars>>

\* handler, in stop(): Logger::info(...) takes and releases log_mutex_ (it
\* waits as long as another holder has it); then expiry_manager_.stop() is
\* entered
SigLog ==
  /\ hpc = "log"
  /\ log_mutex_ = NoThread
  /\ NoManagerCall
  /\ issued' = issued + 1
  /\ hpc' = "em_stop"
  /\ UNCHANGED <<main, app_stop_requested_, store_alive, hon, sigs, log_mutex_>>
  /\ UNCHANGED <<kv_vars, pool_vars, expiry_vars, server_vars, http_vars>>

\* handler: expiry_manager_.stop() has returned; the handler returns and the
\* interrupted thread resumes
SigReturn ==
  /\ hpc = "em_stop"
  /\ NoManagerCall
  /\ hpc' = "none"
  /\ hon' = NoThread
  /\ UNCHANGED <<main, app_stop_requested_, issued, store_alive, sigs,
                 log_mutex_>>
  /\ UNCHANGED <<kv_vars, pool_vars, expiry_vars, server_vars, http_vars>>

\* handler on the sweeper thread: cleanup_thread_.join() joins the calling
\* thread itself; it throws std::system_error out of the handler, which ends
\* the process (or it never returns: then no step is taken)
SigSelfJoin ==
  /\ hpc = "em_stop"
  /\ hon = Sweeper
  /\ mpc = "stop_join"
  /\ mpc' = "terminated"
  /\ UNCHANGED <<cleanup_thread_, em_stop_requested_, loop, mev, calls>>
  /\ UNCHANGED <<kv_vars, pool_vars, net_vars>>

\* a worker's task logs (Logger::info in the store's operations): it takes
\* log_mutex_
LogLock(w) ==
  /\ wpc[w] = "run"
  /\ log_mutex_ = NoThread
  /\ log_mutex_' = w
  /\ UNCHANGED <<main, app_stop_requested_, issued, store_alive, hpc, hon,
                 sigs>>
  /\ UNCHANGED <<kv_vars, pool_vars, expiry_vars, server_vars, http_vars>>

\* Logger::log returns: the lock_guard releases log_mutex_
LogUnlock(w) ==
  /\ log_mutex_ = w
  /\ log_mutex_' = NoThread
  /\ UNCHANGED <<main, app_stop_requested_, issued, store_alive, hpc, hon,
                 sigs>>
  /\ UNCHANGED <<kv_vars, pool_vars, expiry_vars, server_vars, http_vars>>

\* the main thread runs: the process is alive and no handler sits on it
MainRuns == Alive /\ hon # "main"

\* the main thread runs inside server.start() or the local server's destructor
InServer == MainRuns /\ main = "server"

\* the sweeper thread runs
SweeperRuns == Alive /\ hon # Sweeper

\* worker w of the server's pool runs, outside Logger::log
WorkerRuns(w) == Alive /\ main = "server" /\ hon # w /\ log_mutex_ # w

\* an ExpiryManager::stop() call was entered, by the main thread or by the
\* handler, and has not returned
InStop == Alive /\ calls.stops < issued

\* the steps of the main thread that need no client: run(), the server it
\* runs and destroys, ~Application
MainStep ==
  \/ MainRuns /\ AppRunStart
  \/ MainRuns /\ StartThread
  \/ MainRuns /\ AppServerCtor
  \/ InServer /\ ServerCreate
  \/ InServer /\ ServerBind
  \/ InServer /\ ServerListen
  \/ InServer /\ ServerWhile
  \/ InServer /\ ServerWrap
  \/ InServer /\ ServerSubmit
  \/ InServer /\ SubmitPush
  \/ InServer /\ SubmitNotify
  \/ InServer /\ ServerSubmitted
  \/ InServer /\ ServerDtorStop
  \/ InServer /\ ServerDtorPool
  \/ InServer /\ TeardownNotifyAll
  \/ InServer /\ TeardownJoin
  \/ InServer /\ ServerDestroyed
  \/ MainRuns /\ AppRunReturns
  \/ MainRuns /\ AppDtorStop
  \/ MainRuns /\ AppStopLog
  \/ MainRuns /\ AppStopReturned
  \/ MainRuns /\ AppEmDtor
  \/ MainRuns /\ AppEmDtorReturned
  \/ MainRuns /\ AppStoreDtor

\* accept_connection() returns in the main thread, for up to MaxConns clients
AppAcceptReturns ==
  \/ InServer /\ accepted < MaxConns /\ ServerAccept
  \/ InServer /\ ServerAcceptFails

\* the steps of a stop() call of the ExpiryManager that was entered
StopStep ==
  \/ InStop /\ StopCheck
  \/ InStop /\ StopStore
  \/ InStop /\ StopNotify
  \/ InStop /\ StopJoin

\* the steps of the handler
HandlerStep ==
  \/ Alive /\ SigExchange
  \/ Alive /\ SigLog
  \/ Alive /\ SigReturn

\* the steps of the sweeper thread, over a store nobody fills, but for the
\* ends of its wait_for
SweeperStep ==
  \/ SweeperRuns /\ LoopWhile
  \/ SweeperRuns /\ LoopCleanup
  \/ SweeperRuns /\ SweepDone(Sweeper)
  \/ SweeperRuns /\ LoopWaitFor
  \/ SweeperRuns /\ LoopBlock
  \/ SweeperRuns /\ LoopWake

\* the steps of worker w inside the server's pool
PoolWorkerStep(w) ==
  \/ WorkerRuns(w) /\ WorkerLock(w)
  \/ WorkerRuns(w) /\ WorkerPred(w)
  \/ WorkerRuns(w) /\ WorkerBlock(w)
  \/ WorkerRuns(w) /\ WorkerRelock(w)
  \/ WorkerRuns(w) /\ WorkerDecide(w)
  \/ WorkerRuns(w) /\ WorkerRun(w)

NextApp ==
  \/ MainStep
  \/ AppAcceptReturns
  \/ StopStep
  \/ HandlerStep
  \/ Alive /\ SigSelfJoin
  \/ \E t \in {"main", Sweeper} \cup Workers : Alive /\ SigDeliver(t)
  \/ SweeperStep
  \/ SweeperRuns /\ LoopTimeout
  \/ SweeperRuns /\ LoopSpuriousWake
  \/ \E w \in Workers : PoolWorkerStep(w)
  \/ \E w \in Workers : WorkerRuns(w) /\ SpuriousWake(w)
  \/ \E w \in Workers : WorkerRuns(w) /\ LogLock(w)
  \/ \E w \in Workers : Alive /\ hon # w /\ LogUnlock(w)

\* the Application as main() runs it, with up to MaxSignals SIGINTs and up
\* to MaxConns clients
SpecApp == Init /\ [][NextApp]_vars

\* the same, with every thread scheduled as long as it can take a step, a
\* wait_for whose interval runs out, and a handler that gets log_mutex_ if it
\* is free again and again; nothing obliges a client to connect
SpecAppFair ==
  /\ SpecApp
  /\ WF_vars(MainStep)
  /\ WF_vars(StopStep)
  /\ WF_vars(HandlerStep)
  /\ SF_vars(Alive /\ SigLog)
  /\ WF_vars(SweeperStep)
  /\ SF_vars(SweeperRuns /\ LoopTimeout)
  /\ \A w \in Workers : WF_vars(PoolWorkerStep(w))
  /\ \A w \in Workers : WF_vars(Alive /\ hon # w /\ LogUnlock(w))

\* ====================================================== HTTP front end
\* A std::string is a sequence of one-character strings.

\* the only member of a non-empty std::optional
the(S) == CHOOSE x \in S : TRUE

\* ::isspace in the "C" locale, on the characters that occur in the inputs
isspace(c) == c \in {" ", "\t", "\n", "\r"}

UpperCase == <<"A", "B", "C", "D", "E", "F", "G", "H", "I", "J", "K", "L", "M",
               "N", "O", "P", "Q", "R", "S", "T", "U", "V", "W", "X", "Y", "Z">>
LowerCase == <<"a", "b", "c", "d", "e", "f", "g", "h", "i", "j", "k", "l", "m",
               "n", "o", "p", "q", "r", "s", "t", "u", "v", "w", "x", "y", "z">>

\* ::tolower
tolower(c) ==
  IF \E i \in DOMAIN UpperCase : UpperCase[i] = c
  THEN LowerCase[CHOOSE i \in DOMAIN UpperCase : UpperCase[i] = c]
  ELSE c

\* a to_lower that leaves the string as it is
to_lower_as_is(str) == str

\* to_lower: std::transform(..., ::tolower)
to_lower(str) == [i \in 1 .. Len(str) |-> tolower(str[i])]

\* std::string::find(char): the first position of c in str, 0 for npos
find_char(str, c) ==
  IF \E i \in 1 .. Len(str) : str[i] = c
  THEN CHOOSE i \in 1 .. Len(str) :
         str[i] = c /\ \A j \in 1 .. i - 1 : str[j] # c
  ELSE 0

\* str.substr(pos), positions counted from 1
substr(str, pos) == SubSeq(str, pos, Len(str))

\* std::getline(stream, line): fails on an exhausted stream, else reads up
\* to and consumes the next '\n' (or reads to the end of the stream)
getline(stream) ==
  IF stream = <<>>
  THEN [ok |-> FALSE, line |-> <<>>, rest |-> <<>>]
  ELSE LET i == find_char(stream, "\n") IN
       IF i = 0
       THEN [ok |-> TRUE, line |-> stream, rest |-> <<>>]
       ELSE [ok |-> TRUE, line |-> SubSeq(stream, 1, i - 1),
             rest |-> substr(stream, i + 1)]

\* if (!line.empty() && line.back() == '\r') line.pop_back()
pop_cr(line) ==
  IF line # <<>> /\ line[Len(line)] = "\r"
  THEN SubSeq(line, 1, Len(line) - 1)
  ELSE line

\* the length of the longest prefix of str whose characters are all in Class
RECURSIVE span(_, _)
span(str, Class) ==
  IF str # <<>> /\ Head(str) \in Class THEN 1 + span(Tail(str), Class) ELSE 0

\* the characters the inputs are written in
Alphabet ==
  {" ", "\t", "\n", "\r", ":", "/", "+", "-", ".", "0", "1", "2", "3", "4",
   "5", "6", "7", "8", "9"}
    \cup {UpperCase[i] : i \in DOMAIN UpperCase}
    \cup {LowerCase[i] : i \in DOMAIN LowerCase}

Spaces == {c \in Alphabet : isspace(c)}

\* stream >> token: skip leading whitespace, then read up to the next
\* whitespace; fails when nothing but whitespace is left
extract(stream) ==
  LET s == substr(stream, span(stream, Spaces) + 1)
      n == span(s, Alphabet \ Spaces)
  IN IF n = 0
     THEN [ok |-> FALSE, token |-> <<>>, rest |-> <<>>]
     ELSE [ok |-> TRUE, token |-> SubSeq(s, 1, n), rest |-> substr(s, n + 1)]

\* HttpRequest::string_to_method; HttpMethod values are named by strings
string_to_method(method_str) ==
  IF method_str = <<"G", "E", "T">> THEN "GET"
  ELSE IF method_str = <<"P", "U", "T">> THEN "PUT"
  ELSE IF method_str = <<"D", "E", "L", "E", "T", "E">> THEN "DELETE"
  ELSE "UNKNOWN"

\* std::unordered_map<std::string, std::string> without entries
NoHeaders == [name \in {} |-> <<>>]

\* headers_[name] = value
header_assign(headers, name, value) ==
  [n \in DOMAIN headers \cup {name} |-> IF n = name THEN value ELSE headers[n]]

\* the header loop of parse and the body that follows it: each line up to
\* the first empty one is split at its first colon, the name lower-cased,
\* the blanks after the colon skipped; lines without a colon are skipped;
\* what is left of the stream is the body
RECURSIVE parse_headers(_, _)
parse_headers(stream, headers) ==
  LET g == getline(stream)
      line == pop_cr(g.line)
      colon_pos == find_char(line, ":")
      value == substr(line, colon_pos + 1)
  IN IF ~g.ok THEN [headers_ |-> headers, body_ |-> <<>>]
     ELSE IF line = <<>> THEN [headers_ |-> headers, body_ |-> g.rest]
     ELSE IF colon_pos = 0 THEN parse_headers(g.rest, headers)
     ELSE parse_headers(g.rest,
            header_assign(headers, to_lower(SubSeq(line, 1, colon_pos - 1)),
                          substr(value, span(value, {" "}) + 1)))

\* HttpRequest::parse: nullopt for an empty input and for a request line
\* from which method, path and version cannot all be extracted
parse(raw) ==
  LET g == getline(raw)
      m == extract(pop_cr(g.line))
      p == extract(m.rest)
      v == extract(p.rest)
      h == parse_headers(g.rest, NoHeaders)
  IN IF raw = <<>> \/ ~g.ok \/ ~(m.ok /\ p.ok /\ v.ok)
     THEN {}
     ELSE {[method_ |-> string_to_method(m.token), path_ |-> p.token,
            headers_ |-> h.headers_, body_ |-> h.body_]}

\* HttpRequest::get_header: headers_.find(to_lower(name))
get_header(req, name) ==
  IF to_lower(name) \in DOMAIN req.headers_
  THEN {req.headers_[to_lower(name)]}
  ELSE {}

\* ------------------------------------------------------ Router::route
KV == <<"/", "k", "v">>
KV_SLASH == <<"/", "k", "v", "/">>

\* Router::routes_ once KvHandler::register_routes has run
routes_ ==
  << [method |-> "GET", prefix |-> KV_SLASH, handler |-> "get_key"],
     [method |-> "PUT", prefix |-> KV_SLASH, handler |-> "put_key"],
     [method |-> "DELETE", prefix |-> KV_SLASH, handler |-> "delete_key"],
     [method |-> "GET", prefix |-> KV, handler |-> "list_keys"] >>

\* path.find(prefix) == 0
starts_with(path, prefix) ==
  Len(prefix) <= Len(path) /\ SubSeq(path, 1, Len(prefix)) = prefix

\* the first route whose method and prefix match, with the path suffix it
\* hands to its handler; handler "none" when no route matches
route(req) ==
  LET hits == {i \in DOMAIN routes_ :
                 /\ routes_[i].method = req.method_
                 /\ starts_with(req.path_, routes_[i].prefix)}
  IN IF hits = {}
     THEN [handler |-> "none", path_suffix |-> <<>>]
     ELSE LET i == CHOOSE i \in hits : \A j \in hits : i <= j IN
          [handler |-> routes_[i].handler,
           path_suffix |-> substr(req.path_, Len(routes_[i].prefix) + 1)]

\* ---------------------------------------------------------- std::stoi
Digits == <<"0", "1", "2", "3", "4", "5", "6", "7", "8", "9">>
DigitSet == {Digits[i] : i \in DOMAIN Digits}
digit(c) == (CHOOSE i \in DOMAIN Digits : Digits[i] = c) - 1

\* the digits without their leading zeros
RECURSIVE significant(_)
significant(ds) ==
  IF ds # <<>> /\ Head(ds) = "0" THEN significant(Tail(ds)) ELSE ds

\* the digits of INT_MAX and of -INT_MIN
INT_MAX_DIGITS == <<"2", "1", "4", "7", "4", "8", "3", "6", "4", "7">>
INT_MIN_DIGITS == <<"2", "1", "4", "7", "4", "8", "3", "6", "4", "8">>

\* the number written by ds is greater than the one written by limit
exceeds(ds, limit) ==
  LET s == significant(ds) IN
  \/ Len(s) > Len(limit)
  \/ /\ Len(s) = Len(limit)
     /\ \E i \in 1 .. Len(s) :
          /\ digit(s[i]) > digit(limit[i])
          /\ \A j \in 1 .. i - 1 : s[j] = limit[j]

\* the number written by the digits ds
RECURSIVE decimal(_)
decimal(ds) ==
  IF ds = <<>> THEN 0
  ELSE 10 * decimal(SubSeq(ds, 1, Len(ds) - 1)) + digit(ds[Len(ds)])

\* std::stoi(str): skip leading whitespace, take an optional sign and the
\* longest run of digits, ignore what follows; {} when it throws
\* (invalid_argument without a digit, out_of_range outside int)
stoi(str) ==
  LET s == substr(str, span(str, Spaces) + 1)
      signed == s # <<>> /\ Head(s) \in {"+", "-"}
      negative == s # <<>> /\ Head(s) = "-"
      u == IF signed THEN Tail(s) ELSE s
      ds == SubSeq(u, 1, span(u, DigitSet))
  IN IF ds = <<>> THEN {}
     ELSE IF exceeds(ds, IF negative THEN INT_MIN_DIGITS ELSE INT_MAX_DIGITS)
     THEN {}
     ELSE {IF negative THEN -decimal(ds) ELSE decimal(ds)}

\* ------------------------------------------------------- HttpResponse
\* the factories followed by .body(...); a body is a std::string, fixed
\* message texts are written as one element
ok(body) == [status_code_ |-> 200, body_ |-> body]
created(body) == [status_code_ |-> 201, body_ |-> body]
bad_request(body) == [status_code_ |-> 400, body_ |-> body]
not_found(body) == [status_code_ |-> 404, body_ |-> body]

\* ---------------------------------------------------------- KvHandler
\* the thread that serves the request (a worker running handle_connection)
HttpWorker == "t1"

\* The store model names keys and values by the members of Keys and Values:
\* text(a) is the std::string that a names, name_of(str) the name of str.
text(a) ==
  CASE a = "k1" -> <<"k", "1">>
    [] a = "k2" -> <<"k", "2">>
    [] a = "k3" -> <<"k", "3">>
    [] a = "a" -> <<"a">>
    [] a = "b" -> <<"b">>

name_of(str) == CHOOSE a \in Keys \cup Values : text(a) = str

X_TTL == <<"X", "-", "T", "T", "L">>

\* put_key: ttl_seconds is 0 unless the X-TTL header is present and
\* std::stoi returns for it (what stoi throws is caught and ignored)
ttl_seconds(req) ==
  LET ttl_header == get_header(req, X_TTL) IN
  IF ttl_header = {} THEN 0
  ELSE IF stoi(the(ttl_header)) = {} THEN 0
  ELSE the(stoi(the(ttl_header)))

\* list_keys: the keys, a "\n" between two of them
RECURSIVE join_keys(_)
join_keys(all_keys) ==
  IF all_keys = <<>> THEN <<>>
  ELSE IF Len(all_keys) = 1 THEN text(all_keys[1])
  ELSE text(all_keys[1]) \o <<"\n">> \o join_keys(Tail(all_keys))

\* the store call of the running handler has returned
Returned(op) == pc[HttpWorker] = "idle" /\ ev.op = op /\ ev.t = HttpWorker

\* handle_connection: router_.route(request.value())
RouteCall(req) ==
  /\ rpc = "idle"
  /\ request' = {req}
  /\ rpc' = "route"
  /\ params' = NoParams
  /\ UNCHANGED <<raw_request, lookup, response>>
  /\ UNCHANGED <<kv_vars, pool_vars, expiry_vars, server_vars, app_vars>>

\* Router::route: call the handler of the first matching route with the
\* path suffix, or return 404 when none matches
RouteMatch ==
  /\ rpc = "route"
  /\ LET r == route(the(request)) IN
     IF r.handler = "none"
     THEN /\ response' = not_found(<<"Not Found: ">> \o the(request).path_)
          /\ rpc' = "respond"
          /\ request' = {}
          /\ UNCHANGED params
     ELSE /\ rpc' = r.handler
          /\ params' = [path_suffix |-> r.path_suffix]
          /\ UNCHANGED <<request, response>>
  /\ UNCHANGED <<raw_request, lookup>>
  /\ UNCHANGED <<kv_vars, pool_vars, expiry_vars, server_vars, app_vars>>

\* the handler returns resp to route, which returns it to its caller
HandlerReturn(resp) ==
  /\ response' = resp
  /\ rpc' = "respond"
  /\ request' = {}
  /\ params' = NoParams
  /\ UNCHANGED <<raw_request, lookup>>
  /\ UNCHANGED <<kv_vars, pool_vars, expiry_vars, server_vars, app_vars>>

\* get_key: if (key.empty()) return bad_request
GetKeyEmpty ==
  /\ rpc = "get_key"
  /\ params.path_suffix = <<>>
  /\ HandlerReturn(bad_request(<<"Key cannot be empty">>))

\* get_key: store_.get(key)
GetKeyStoreGet ==
  /\ rpc = "get_key"
  /\ params.path_suffix # <<>>
  /\ ev.op = "none"
  /\ GetLock(HttpWorker, name_of(params.path_suffix))

\* get_key: 200 with the value if store_.get returned one, else 404
GetKeyReturn ==
  /\ rpc = "get_key"
  /\ Returned("get")
  /\ HandlerReturn(IF ev.res = NotFound
                   THEN not_found(<<"Key not found: ">> \o params.path_suffix)
                   ELSE ok(text(ev.res)))

\* put_key: if (key.empty()) return bad_request
PutKeyEmpty ==
  /\ rpc = "put_key"
  /\ params.path_suffix = <<>>
  /\ HandlerReturn(bad_request(<<"Key cannot be empty">>))

\* put_key: store_.set(key, request.body(), ttl_seconds)
PutKeyStoreSet ==
  /\ rpc = "put_key"
  /\ params.path_suffix # <<>>
  /\ ev.op = "none"
  /\ SetCall(HttpWorker, name_of(params.path_suffix),
             name_of(the(request).body_), ttl_seconds(the(request)))

\* put_key: return created().body("OK")
PutKeyReturn ==
  /\ rpc = "put_key"
  /\ Returned("set")
  /\ HandlerReturn(created(<<"OK">>))

\* delete_key: if (key.empty()) return bad_request
DeleteKeyEmpty ==
  /\ rpc = "delete_key"
  /\ params.path_suffix = <<>>
  /\ HandlerReturn(bad_request(<<"Key cannot be empty">>))

\* delete_key: store_.remove(key)
DeleteKeyStoreRemove ==
  /\ rpc = "delete_key"
  /\ params.path_suffix # <<>>
  /\ ev.op = "none"
  /\ RemoveLock(HttpWorker, name_of(params.path_suffix))

\* delete_key: 200 if store_.remove returned true, else 404
DeleteKeyReturn ==
  /\ rpc = "delete_key"
  /\ Returned("remove")
  /\ HandlerReturn(IF ev.res
                   THEN ok(<<"Deleted: ">> \o params.path_suffix)
                   ELSE not_found(<<"Key not found: ">> \o params.path_suffix))

\* list_keys: store_.keys()
ListKeysStoreKeys ==
  /\ rpc = "list_keys"
  /\ ev.op = "none"
  /\ KeysLock(HttpWorker)

\* list_keys: 200 with the keys, one per line
ListKeysReturn ==
  /\ rpc = "list_keys"
  /\ Returned("keys")
  /\ HandlerReturn(ok(join_keys(ev.result)))

\* handle_connection: client_socket.write_all(response.build()), return
WriteAll ==
  /\ rpc = "respond"
  /\ rpc' = "idle"
  /\ response' = NoResponse
  /\ ev' = NoEvent
  /\ UNCHANGED <<raw_request, request, params, lookup>>
  /\ UNCHANGED <<now, map_, mutex_, pc, loc, last, set_last>>
  /\ UNCHANGED <<pool_vars, expiry_vars, server_vars, app_vars>>

\* the clock advances, except between the return of the store call and the
\* next statement of the handler (which does not read the clock)
HttpTick ==
  /\ ~(rpc \in {"get_key", "put_key", "delete_key", "list_keys", "respond"}
       /\ ev.op # "none")
  /\ Tick

\* path lengths of the requests handed to the router
MaxPath == 4

HttpMethods == {"GET", "PUT", "DELETE", "UNKNOWN"}

\* every request of every method whose path is a string over "/", "k", "v",
\* "x" of length 1 .. MaxPath, without headers
RouteRequests ==
  {[method_ |-> m, path_ |-> p, headers_ |-> NoHeaders, body_ |-> <<"a">>] :
     m \in HttpMethods,
     p \in UNION {[1 .. n -> {"/", "k", "v", "x"}] : n \in 1 .. MaxPath}}

\* X-TTL values: integers, signs, blanks, trailing text, no digits, a
\* fraction, leading zero, and INT_MAX + 1
TtlTexts ==
  {<<"1">>, <<"0">>, <<"-", "1">>, <<"+", "1">>, <<"0", "1">>, <<"1", "a">>,
   <<"a">>, <<"a", "1">>, <<>>, <<"\t", "1">>, <<"1", ".", "5">>,
   INT_MIN_DIGITS}

\* GET, PUT and DELETE of /kv/k1 and /kv/k2, PUT with bodies a and b and
\* with every X-TTL value or none
KeyRequests ==
  {[method_ |-> m, path_ |-> KV_SLASH \o text(k), headers_ |-> h,
    body_ |-> text(v)] :
     m \in {"GET", "PUT", "DELETE"}, k \in {"k1", "k2"}, v \in Values,
     h \in {NoHeaders}}
  \cup
  {[method_ |-> "PUT", path_ |-> KV_SLASH \o text("k1"),
    headers_ |-> header_assign(NoHeaders, to_lower(X_TTL), t),
    body_ |-> <<"a">>] : t \in TtlTexts}

NextHttp ==
  \/ rpc = "idle" /\ \E req \in RouteRequests \cup KeyRequests : RouteCall(req)
  \/ RouteMatch
  \/ GetKeyEmpty
  \/ GetKeyStoreGet
  \/ rpc = "get_key" /\ GetFind(HttpWorker)
  \/ rpc = "get_key" /\ GetIsExpired(HttpWorker)
  \/ rpc = "get_key" /\ GetRemoveLock(HttpWorker)
  \/ rpc = "get_key" /\ GetErase(HttpWorker)
  \/ GetKeyReturn
  \/ PutKeyEmpty
  \/ PutKeyStoreSet
  \/ rpc = "put_key" /\ SetLock(HttpWorker)
  \/ rpc = "put_key" /\ SetAssign(HttpWorker)
  \/ PutKeyReturn
  \/ DeleteKeyEmpty
  \/ DeleteKeyStoreRemove
  \/ rpc = "delete_key" /\ RemoveErase(HttpWorker)
  \/ DeleteKeyReturn
  \/ ListKeysStoreKeys
  \/ \E k \in Keys : rpc = "list_keys" /\ KeysVisit(HttpWorker, k)
  \/ rpc = "list_keys" /\ KeysDone(HttpWorker)
  \/ ListKeysReturn
  \/ WriteAll
  \/ HttpTick

\* one thread serving requests through Router::route, one after the other
SpecHttp == Init /\ [][NextHttp]_vars

\* ------------------------------------------------- HttpRequest::parse
\* HttpRequest::parse(raw)
ParseCall(raw) ==
  /\ rpc = "idle"
  /\ raw_request' = raw
  /\ request' = parse(raw)
  /\ rpc' = "parsed"
  /\ UNCHANGED <<params, lookup, response>>
  /\ UNCHANGED <<kv_vars, pool_vars, expiry_vars, server_vars, app_vars>>

\* request->get_header(name)
GetHeaderCall(name) ==
  /\ rpc = "parsed"
  /\ request # {}
  /\ lookup' = [name |-> name, res |-> get_header(the(request), name),
                called |-> TRUE]
  /\ UNCHANGED <<rpc, raw_request, request, params, response>>
  /\ UNCHANGED <<kv_vars, pool_vars, expiry_vars, server_vars, app_vars>>

\* lengths of the inputs that vary the request line
MaxLine == 6

\* every string over a token character, blank, tab, CR and LF of length
\* 0 .. MaxLine
LineInputs ==
  UNION {[1 .. n -> {"G", " ", "\t", "\r", "\n"}] : n \in 0 .. MaxLine}

CRLF == <<"\r", "\n">>

\* header lines: a name in three spellings, a colon with or without blanks
\* around it, a value or none, ended by CRLF or LF; a line without a colon;
\* the empty line that ends the headers
HeaderLines ==
  {name \o sep \o value \o eol :
     name \in {<<"A", "b">>, <<"a", "b">>, <<"A", "B">>},
     sep \in {<<":">>, <<":", " ">>, <<" ", ":">>},
     value \in {<<"v">>, <<>>},
     eol \in {CRLF, <<"\n">>}}
  \cup {<<"A", "b">> \o CRLF, CRLF}

\* a well-formed request line followed by two header lines
HeaderInputs ==
  {<<"G", "E", "T", " ", "/", " ", "H">> \o CRLF \o h1 \o h2 :
     h1 \in HeaderLines, h2 \in HeaderLines}

\* the names looked up
HeaderNames ==
  {<<"a", "b">>, <<"A", "b">>, <<"a", "B">>, <<"A", "B">>, <<"b">>}

NextParse ==
  \/ rpc = "idle" /\ \E raw \in LineInputs \cup HeaderInputs : ParseCall(raw)
  \/ rpc = "parsed" /\ \E name \in HeaderNames : GetHeaderCall(name)

\* HttpRequest::parse on one input, then get_header calls on its result
SpecParse == Init /\ [][NextParse]_vars

\* ============================================================== claims
\* an entry's TTL has elapsed at clock reading t (the contract's notion)
Expired(e, t) == e.expires_at # NoExpiry /\ e.expires_at <= t

Has(seq, x) == \E i \in 1 .. Len(seq) : seq[i] = x

\* C1: after set(k, v, ttl > 0) with no later set(k) or remove(k), a get(k)
\* returns found(v) while fewer than ttl seconds have passed since the set's
\* clock reading and not_found once ttl seconds or more have passed, and from
\* then on keys() does not list k, whether or not a sweep has run.
C1_TtlExpiry ==
  /\ ev.op = "get" =>
       \A s \in ev.basis :
         s.ttl > 0 =>
           IF ev.time < s.at + s.ttl
           THEN ev.res = s.value ELSE ev.res = NotFound
  /\ ev.op = "keys" =>
       \A k \in DOMAIN ev.seen :
         (/\ last[k].op = "set"
          /\ last[k].ttl > 0
          /\ ev.seen[k] >= last[k].at + last[k].ttl) => ~Has(ev.result, k)

\* C2: after set(k, v, 0) with no later set(k) or remove(k), every get(k)
\* returns found(v), however far the clock advanced and however many sweeps
\* ran in between.
C2_NoTtlNeverExpires ==
  ev.op = "get" =>
    \A s \in ev.basis : s.ttl = 0 => ev.res = s.value

\* C3: when a get(k) has observed an expired entry and a set(k, v, ttl)
\* completes before the get's removal step, the entry written by that set
\* (when it is not itself expired by then) is still in the map after the
\* removal step, so that a later get(k) can return found(v).
C3_LazyDeletionLosesNoData ==
  (/\ ev.op = "get" /\ ev.path = "lazy" /\ ev.fresh
   /\ \E e \in ev.prior : ~Expired(e, ev.time)) =>
    /\ contains(map_, ev.key)
    /\ map_[ev.key] \in ev.prior

\* C4: set(k, b, t2) replaces the whole prior entry of k: right after it the
\* stored entry is (b, expiry derived from t2 alone), whatever entry it
\* replaced, and a get(k) for which that set is the last write of k returns
\* found(b) until that expiry, forever when t2 <= 0.
C4_SetReplacesWholeEntry ==
  /\ ev.op = "set" =>
       /\ contains(map_, ev.key)
       /\ map_[ev.key] =
            StoreEntry(ev.value,
                       IF ev.ttl > 0 THEN ev.at + ev.ttl ELSE NoExpiry)
  /\ ev.op = "get" =>
       \A s \in ev.basis :
         IF s.ttl > 0 /\ ev.time >= s.at + s.ttl
         THEN ev.res = NotFound ELSE ev.res = s.value

C6_SingleClockReading ==
  ev.op = "cleanup" =>
    \A k \in DOMAIN ev.pre :
      (k \notin DOMAIN map_) <=> Expired(ev.pre[k], ev.t0)

\* C6 (amended): one cleanup_expired() call judges each entry against the
\* clock reading taken when that entry is inspected: an entry is removed iff
\* its expires_at is at or before that reading, and the readings lie between
\* the start and the end of the call.
C6_ClockReadingPerEntry ==
  ev.op = "cleanup" =>
    /\ DOMAIN ev.seen = DOMAIN ev.pre
    /\ \A k \in DOMAIN ev.pre :
         /\ (k \notin DOMAIN map_) <=> Expired(ev.pre[k], ev.seen[k])
         /\ ev.t0 <= ev.seen[k] /\ ev.seen[k] <= ev.t1

\* the clock advanced during the scan and an entry live at t0 was removed
C6_Witness ==
  /\ ev.op = "cleanup"
  /\ \E k \in DOMAIN ev.pre :
       /\ k \notin DOMAIN map_
       /\ ~Expired(ev.pre[k], ev.t0)
       /\ ev.seen[k] > ev.t0

\* what changed key k in this step, from the step's event
Cause(k) ==
  IF ev'.op \in {"set", "remove", "sweep_visit"} /\ ev'.key = k THEN ev'.op
  ELSE IF ev'.op = "get" /\ ev'.path = "lazy" /\ ev'.key = k THEN "lazy"
  ELSE "other"

\* C7 (as claimed): per key the physical state changes only by: absent to
\* present by set; present(no-ttl) to absent by remove; present(no-ttl) to
\* present(no-ttl) by set; present(ttl) to absent by lazy expiry or sweep;
\* present(ttl) to present(ttl or no-ttl) by set.
C7_ListedStep ==
  \A k \in Keys :
    find(map_, k) # find(map_', k) =>
      LET from == Kind(k)
          to == KindOf(find(map_', k))
          by == Cause(k)
      IN \/ from = "absent" /\ to # "absent" /\ by = "set"
         \/ from = "no-ttl" /\ to = "absent" /\ by = "remove"
         \/ from = "no-ttl" /\ to = "no-ttl" /\ by = "set"
         \/ from = "ttl" /\ to = "absent" /\ by \in {"lazy", "sweep_visit"}
         \/ from = "ttl" /\ to # "absent" /\ by = "set"

C7_ListedTransitionsOnly == [][C7_ListedStep]_vars

\* C7 (amended): per key the physical state changes only by: absent to
\* present by set; present to present (with or without TTL, either way) by
\* set; present to absent by remove, or by the removal step of a get that had
\* observed an expired entry of the key; present(ttl) to absent by a sweep
\* that finds the entry expired.
C7_ActualStep ==
  \A k \in Keys :
    find(map_, k) # find(map_', k) =>
      LET from == Kind(k)
          to == KindOf(find(map_', k))
          by == Cause(k)
      IN \/ to # "absent" /\ by = "set"
         \/ from # "absent" /\ to = "absent" /\ by = "remove"
         \/ /\ from # "absent" /\ to = "absent" /\ by = "lazy"
            /\ Expired(ev'.seen, ev'.time)
         \/ /\ from = "ttl" /\ to = "absent" /\ by = "sweep_visit"
            /\ Expired(map_[k], ev'.time)

C7_ActualTransitionsOnly == [][C7_ActualStep]_vars

\* remove(k) has just taken a key with TTL to absent
C7_Witness ==
  ev.op = "remove" /\ KindOf(ev.prior) = "ttl" /\ Kind(ev.key) = "absent"

\* C8: remove(k) returns true iff an entry of k was present when the call
\* took the exclusive lock; on an absent key it returns false, and a remove(k)
\* whose last preceding write of k is a remove returns false.
C8_RemoveResult ==
  ev.op = "remove" =>
    /\ ev.res <=> (ev.locked # {})
    /\ ev.prior = {} => ~ev.res
    /\ ev.before.op \in {"none", "remove"} => ~ev.res

\* a second remove(k) right after a successful one
C8_Witness ==
  /\ ev.op = "remove"
  /\ ev.before.op = "remove"
  /\ ev.before.ok
  /\ ~ev.res

\* C9: remove(k) does not consult expiry: on an entry that is expired but
\* still in the map it returns true and deletes it.
C9_RemoveIgnoresExpiry ==
  (ev.op = "remove" /\ \E e \in ev.locked : Expired(e, ev.time)) =>
    /\ ev.res
    /\ ~contains(map_, ev.key)

C9_Witness ==
  /\ ev.op = "remove"
  /\ \E e \in ev.locked : Expired(e, ev.time)
  /\ ev.res

\* C10: keys() returns each key whose entry is present and not expired when
\* inspected exactly once, and no key whose entry is absent or expired.
C10_KeysListsLiveKeysOnce ==
  ev.op = "keys" =>
    /\ \A i, j \in 1 .. Len(ev.result) : ev.result[i] = ev.result[j] => i = j
    /\ DOMAIN ev.seen = DOMAIN map_
    /\ \A k \in Keys :
         Has(ev.result, k) <=>
           (contains(map_, k) /\ ~Expired(map_[k], ev.seen[k]))

\* three distinct live keys, all three returned
C10_Witness ==
  /\ ev.op = "keys"
  /\ Len(ev.result) = 3
  /\ \E k \in DOMAIN map_ : map_[k].expires_at # NoExpiry

\* C11: keys() is read-only: while a keys() call is scanning, the map does
\* not change, so an expired entry it skipped is still in the map when it
\* returns: a remove(k) that follows finds the entry under its lock and
\* returns true, and a cleanup_expired() that follows scans it as expired.
C11_Step ==
  /\ (\E t \in Threads : pc[t] = "keys_scan") => map_' = map_
  /\ ev.op = "keys" =>
       \A k \in DOMAIN ev.seen :
         ~Has(ev.result, k) =>
           \A t \in Threads :
             /\ (pc[t] = "idle" /\ pc'[t] = "remove_erase" /\ loc'[t].key = k)
                  => (loc'[t].locked # {} /\ remove_result(map_', k))
             /\ (pc[t] = "idle" /\ pc'[t] = "sweep_scan")
                  => (k \in loc'[t].rest /\ is_expired(map_'[k], now'))

C11_KeysIsReadOnly == [][C11_Step]_vars

\* keys() has returned without an expired key that is still in the map
C11_Witness ==
  /\ ev.op = "keys"
  /\ \E k \in DOMAIN ev.seen :
       /\ ~Has(ev.result, k)
       /\ contains(map_, k)
       /\ Expired(map_[k], ev.seen[k])

\* the entry that the set call recorded as s passed to store_.set
EntryOf(s) ==
  StoreEntry(s.value, IF s.ttl > 0 THEN s.at + s.ttl ELSE NoExpiry)

\* C12: in every interleaving of set, get and remove on one key, each entry
\* in the map and each entry a get copied is the (value, expires_at) pair
\* passed by one single set call, the value a get returns is the value of
\* that set, and of two concurrent sets the one that took the exclusive lock
\* last (no other set acquires it between a set's lock and its assignment)
\* is the one whose entry the map holds right after it.
C12_NoTornEntry ==
  /\ \A k \in DOMAIN map_ : \E s \in Basis(k) : map_[k] = EntryOf(s)
  /\ \A t \in Threads :
       pc[t] \in {"get_is_expired", "get_remove", "get_erase"} =>
         \E s \in loc[t].basis : loc[t].entry = EntryOf(s)
  /\ (ev.op = "get" /\ ev.path = "live") =>
       \E s \in ev.basis : ev.res = s.value
  /\ ev.op = "set" =>
       /\ find(map_, ev.key) = {EntryOf(ev)}
       /\ \A s \in Basis(ev.key) : EntryOf(s) = EntryOf(ev)
  /\ \A t \in Threads :
       pc[t] = "set_assign" =>
         /\ mutex_.writer = t
         /\ \A u \in Threads \ {t} : pc[u] # "set_assign"

\* one of two sets in flight on the same key has just replaced an entry that
\* differs from its own in value and expiry, the other is still to lock
C12_Witness ==
  /\ ev.op = "set"
  /\ \E e \in ev.prior :
       e.value # ev.value /\ e.expires_at # map_[ev.key].expires_at
  /\ \E u \in Threads \ {ev.t} :
       /\ pc[u] = "set_lock"
       /\ loc[u].key = ev.key
       /\ loc[u].entry.value # ev.value
       /\ loc[u].entry.expires_at # map_[ev.key].expires_at

\* C13: when size() returns while every other thread has finished its set,
\* get and remove calls, its result is the number of distinct keys whose last
\* write in lock-acquisition order (a set, a remove, or the remove that a get
\* issues for an expired entry) was a set.
C13_SizeCountsSurvivingSets ==
  (ev.op = "size" /\ \A u \in Threads : pc[u] = "idle") =>
    ev.res = Cardinality({k \in Keys : set_last[k]})

\* both keys were written, one was removed again, size() returned 1
C13_Witness ==
  /\ ev.op = "size"
  /\ \A u \in Threads : pc[u] = "idle"
  /\ ev.res = 1
  /\ \E k \in Keys : last[k].op = "remove" /\ last[k].ok

\* a thread is inside a map operation that reads under the shared lock
Reading(t) == pc[t] \in {"get_find", "keys_scan", "size_read"}

\* C14: remove_if is atomic for the other map operations: while a sweep is
\* between its first and its last step it holds the mutex exclusively and no
\* get, for_each (keys) or size is inside the map, so what a keys() or size()
\* returns is a complete map of before or of after the sweep.
C14_SweepIsAtomic ==
  /\ \A s \in Threads :
       pc[s] = "sweep_scan" =>
         /\ mutex_.writer = s
         /\ mutex_.readers = {}
         /\ \A u \in Threads \ {s} : ~Reading(u)
  /\ ev.op = "size" =>
       /\ \A s \in Threads : pc[s] # "sweep_scan"
       /\ ev.res = Cardinality(DOMAIN map_)
  /\ ev.op = "keys" =>
       /\ \A s \in Threads : pc[s] # "sweep_scan"
       /\ DOMAIN ev.seen = DOMAIN map_

\* a sweep in progress has removed one expired entry and not yet the other
C14_Witness ==
  \E s \in Threads :
    /\ pc[s] = "sweep_scan"
    /\ loc[s].count >= 1
    /\ \E k \in loc[s].rest : is_expired(map_[k], now)

\* the number of dequeues of task i
Dequeues(i) == Cardinality({n \in 1 .. Len(deq) : deq[n].task = i})

\* C15: every submitted task is dequeued at most once, by one worker, and
\* executed at most once, only after it was dequeued and never by two
\* workers at a time; when all MaxTasks tasks were submitted, the queue is
\* empty and no worker is inside a task, each task has run exactly once, so
\* the number of executions is MaxTasks (two workers, MaxTasks > 2).
C15_EachTaskRunsOnce ==
  /\ \A i \in Tasks :
       /\ Dequeues(i) <= 1
       /\ runs[i] <= Dequeues(i)
       /\ i > submitted => Dequeues(i) = 0
  /\ \A w, x \in Workers :
       (w # x /\ wtask[w] # NoTask) => wtask[w] # wtask[x]
  /\ (/\ submitted = MaxTasks
      /\ task_queue_ = <<>>
      /\ \A w \in Workers : wpc[w] # "run") =>
       \A i \in Tasks : runs[i] = 1

\* all tasks have run, some on one worker and some on the other
C15_Witness ==
  /\ \A i \in Tasks : runs[i] = 1
  /\ \E n, m \in 1 .. Len(deq) : deq[n].by # deq[m].by
  /\ Cardinality(Workers) < MaxTasks

\* C16: pool teardown always terminates: once ~ThreadPool has stored the
\* shutdown signal and notified all workers, every worker eventually leaves
\* its loop and the joins return (tasks terminate, threads are scheduled
\* fairly), whatever the workers were doing when the teardown began.
C16_TeardownTerminates == (opc = "join") ~> (opc = "destroyed")

\* C17: when ~ThreadPool returns, every task whose submit() had completed
\* when the teardown began (all tasks pushed: the owner thread submits, then
\* destroys) has run to completion exactly once, the queue is empty, and
\* every worker has left its loop, none of them inside a task.
C17_TeardownDrainsQueue ==
  opc = "destroyed" =>
    /\ \A i \in 1 .. submitted : runs[i] = 1
    /\ task_queue_ = <<>>
    /\ \A w \in Workers : wpc[w] = "exited" /\ wtask[w] = NoTask

\* the pool was destroyed after all MaxTasks tasks had been submitted
C17_Witness ==
  /\ opc = "destroyed"
  /\ submitted = MaxTasks
  /\ Len(deq) = MaxTasks

\* C18: every task pushed by submit() is eventually dequeued and executed
\* (tasks terminate, threads are scheduled fairly): submit's notify_one and
\* the workers entering or leaving the wait never leave a task in the queue
\* while the workers sleep; this holds also when the teardown begins before
\* the task was dequeued.
C18_SubmittedTaskRuns ==
  \A i \in Tasks : (i <= submitted) ~> (runs[i] = 1)

\* a task is in the queue while both workers are blocked in the wait
C18_Witness ==
  /\ task_queue_ # <<>>
  /\ condition_ = Workers
  /\ ~stop_requested_

\* C19: tasks are dequeued in the order in which the producer's submit calls
\* pushed them (task i is the i-th pushed): the queue holds them in that
\* order and an earlier dequeue is that of an earlier task; the order in
\* which the tasks complete is not constrained.
C19_FifoDequeue ==
  /\ \A n, m \in 1 .. Len(deq) : n < m => deq[n].task < deq[m].task
  /\ \A n, m \in 1 .. Len(task_queue_) :
       n < m => task_queue_[n] < task_queue_[m]
  /\ \A n \in 1 .. Len(deq), m \in 1 .. Len(task_queue_) :
       deq[n].task < task_queue_[m]

\* task 1 was dequeued before task 2 and task 2 has completed first
C19_Witness ==
  /\ Len(deq) >= 2
  /\ deq[1].task = 1 /\ deq[2].task = 2
  /\ deq[1].by # deq[2].by
  /\ runs[2] = 1 /\ runs[1] = 0

\* C20: from the return of a stop() until the next start() creates a thread
\* there is no sweep loop and no cleanup_expired() call in progress (stop()
\* returned only after cleanup_loop had returned, and none begins); a stop()
\* on a sweeper never started and every stop() after the first since the
\* last start() finds no joinable thread and returns at once: only the first
\* stop() after a start() goes on to the store, the notify and the join.
C20_StopJoinsTheLoop ==
  /\ mev.op = "stop" =>
       /\ loop = "none"
       /\ pc[Sweeper] = "idle"
       /\ ~cleanup_thread_
       /\ mev.joined <=> (mev.started /\ mev.nth = 1)
  /\ mpc \in {"stop_store", "stop_notify", "stop_join"} =>
       /\ cleanup_thread_
       /\ calls.starts > 0
       /\ calls.since = 0

\* a second stop() has returned after one that stopped a running loop, and
\* an expired entry stays in the map with no sweep running
C20_Witness ==
  /\ mev.op = "stop"
  /\ mev.started
  /\ mev.nth = 2
  /\ ~mev.joined
  /\ \E k \in DOMAIN map_ : is_expired(map_[k], now)

\* C21: once stop() has stored the stop flag and notified, the sweep loop
\* never waits out the interval: no wait_for of the loop ends by its timeout
\* while stop() is in its join.
C21_Step == ~(mpc = "stop_join" /\ loop = "waiting" /\ loop' = "while")

C21_StopWakesLoop == [][C21_Step]_vars

\* the second (or a later) start() has returned and no call is in progress
C22_Restarted == mev.op = "start" /\ calls.starts >= 2 /\ mpc = "idle"

\* C22: the sweeper can be restarted: after start(); stop(), a further
\* start() leaves the stop flag reset and a loop running, that loop calls
\* cleanup_expired() again and again until a stop() is called, and a
\* following stop() ends the loop and joins it.
C22_SweeperRestarts ==
  /\ [](C22_Restarted =>
          /\ ~em_stop_requested_
          /\ cleanup_thread_
          /\ loop \notin {"none", "exited"})
  /\ C22_Restarted ~> (loop = "cleanup_expired" \/ mpc # "idle")
  /\ (calls.starts >= 2 /\ mpc = "stop_store")
        ~> (mev.op = "stop" /\ mev.joined /\ ~cleanup_thread_ /\ loop = "none")

C22_Witness == C22_Restarted /\ loop = "wait_for"

\* the sweeper is running: started, not asked to stop, no call in progress
C23_Running == cleanup_thread_ /\ ~em_stop_requested_ /\ mpc = "idle"

\* C23: while the sweeper is running, an entry whose TTL has elapsed is
\* eventually erased from the map (or replaced by a set), with no get ever
\* called, under fair scheduling of the sweeper thread.
C23_ExpiredEntryIsSwept ==
  \A k \in Keys :
    (C23_Running /\ k \in DOMAIN map_ /\ Expired(map_[k], now))
      ~> (k \notin DOMAIN map_ \/ ~Expired(map_[k], now) \/ ~C23_Running)

C23_Witness ==
  /\ C23_Running
  /\ ev.op = "sweep_visit" /\ ev.t = Sweeper /\ ev.removed
  /\ ev.key \notin DOMAIN map_

\* start() has returned to its caller
StartReturned == spc \in {"returned", "pool_dtor", "destroyed"}

\* C25: once TcpServer::stop() has been called, start() eventually leaves
\* the accept loop and returns, whether or not another client connects.
C25_StartReturnsAfterStop == srv_stop_requested_ ~> StartReturned

\* C26: after TcpServer::stop() has set the flag, the accept loop accepts
\* at most one more connection (the accept already in progress), and it never
\* enters accept_connection() with the flag set: the loop condition that
\* reads the flag as set leaves the loop.
C26_AtMostOneLateAccept ==
  /\ [](late <= 1)
  /\ [][(spc # "accept" /\ spc' = "accept") => ~srv_stop_requested_]_vars

C26_Witness == late = 1 /\ conn[accepted].closes = 1 /\ StartReturned

\* C27: each accepted connection gets one task and one handler invocation,
\* its fd is held by one Socket object at a time (the accept result until it
\* is wrapped, then the task's shared Socket, then the handler's parameter),
\* it is closed once, by the end of the handler invocation and by nothing
\* else, and when the server is destroyed every accepted connection has been
\* handled and closed.
C27_OneTaskOneHandlerOneClose ==
  /\ submitted <= accepted
  /\ accepted <= submitted + 1
  /\ (spc \notin {"wrap", "submit"} => submitted = accepted)
  /\ \A i \in Tasks :
       /\ runs[i] <= 1
       /\ Dequeues(i) <= 1
       /\ conn[i].closes = runs[i]
       /\ Cardinality(conn[i].holders) + conn[i].closes
            = (IF i <= accepted THEN 1 ELSE 0)
       /\ (i <= submitted /\ runs[i] = 0 => conn[i].holders = {"shared"})
       /\ (spc = "destroyed" /\ i <= accepted => runs[i] = 1)

C27_Witness == spc = "destroyed" /\ accepted >= 2

\* C28: when create_tcp, bind_to or start_listening has failed, start() has
\* returned: it is never in the accept loop or back in the set-up, no
\* connection was accepted and no task submitted, then or later.
C28_SetupFailureReturns ==
  setup = "failed" =>
    /\ StartReturned
    /\ accepted = 0
    /\ submitted = 0
    /\ task_queue_ = <<>>

C28_Witness == setup = "failed" /\ spc = "destroyed"

\* Application::run() has returned to main()
RunReturned == main \notin {"run", "server"}

\* C24: when SIGINT has invoked Application::stop() while run() is blocked in
\* the server's accept (here: on the main thread itself, which holds no
\* lock there), the accept loop is asked to stop and run() eventually
\* returns.
C24_SigintEndsRun ==
  (hpc # "none" /\ hon = "main" /\ main = "server" /\ spc = "accept")
    ~> (srv_stop_requested_ /\ RunReturned)

\* the handler waits for log_mutex_, which the thread suspended under it holds
HandlerWaitsForOwnThread == hpc = "log" /\ log_mutex_ = hon

\* the handler, on the sweeper thread, joins the sweeper thread
HandlerJoinsItself ==
  hpc = "em_stop" /\ hon = Sweeper /\ mpc \in {"stop_join", "terminated"}

\* C29: Application::stop() called from the SIGINT handler completes on
\* whichever thread the signal interrupts and whatever lock that thread
\* holds: the handler is never waiting for something that only the thread
\* suspended under it could provide.
C29_HandlerStopCompletes ==
  ~HandlerWaitsForOwnThread /\ ~HandlerJoinsItself

\* C30: when store_ is destroyed, the sweeper thread has been joined (no
\* cleanup_loop, no cleanup_expired in progress) and the server with its pool
\* is gone: every worker has exited, none holds a task, none is queued.
C30_StoreOutlivesItsUsers ==
  ~store_alive =>
    /\ ~cleanup_thread_
    /\ loop = "none"
    /\ pc[Sweeper] = "idle"
    /\ spc = "destroyed"
    /\ task_queue_ = <<>>
    /\ \A w \in Workers : wpc[w] = "exited" /\ wtask[w] = NoTask

C30_Witness == ~store_alive /\ calls.starts >= 1 /\ issued >= 2

\* C31: the entry a set(k, v, ttl) has stored has no expiry for every
\* ttl <= 0, negative ones included, and expires at the clock reading the set
\* took plus ttl for every ttl > 0.
C31_SetStoresTtlAsExpiry ==
  ev.op = "set" =>
    /\ ev.key \in DOMAIN map_
    /\ map_[ev.key].value = ev.value
    /\ (ev.ttl <= 0 => map_[ev.key].expires_at = NoExpiry)
    /\ (ev.ttl > 0 => map_[ev.key].expires_at = ev.at + ev.ttl)

C31_Witness ==
  ev.op = "set" /\ ev.ttl < 0 /\ map_[ev.key].expires_at = NoExpiry

\* thread t takes a step of a get in this transition
GetStep(t) ==
  \/ pc[t] = "idle" /\ pc'[t] = "get_find"
  \/ /\ pc[t] \in {"get_find", "get_is_expired", "get_remove", "get_erase"}
     /\ pc'[t] # pc[t]

\* the step is the return of a get that had observed an expired entry
LazyReturn(t) == ev'.op = "get" /\ ev'.t = t /\ ev'.path = "lazy"

\* C32 as stated: a get modifies the map iff it observed an expired entry for
\* k, and then by removing key k only.
C32_StepAsStated ==
  \A t \in Threads :
    GetStep(t) =>
      /\ (map_' # map_) <=> LazyReturn(t)
      /\ (map_' # map_ => map_' = erase(map_, ev'.key))

C32_GetModifiesIffExpired == [][C32_StepAsStated]_vars

\* C32, amended: a get modifies the map only when it returns after having
\* observed an expired entry for k, and then it removes key k if k is still
\* present (another thread may have removed it since the observation, and
\* then the map stays as it is); every other step of a get, so every get on
\* an absent or a live key, leaves the whole map unchanged, and no get adds
\* an entry or changes or removes an entry of another key.
C32_Step ==
  \A t \in Threads :
    GetStep(t) =>
      /\ (LazyReturn(t) => map_' = erase(map_, ev'.key))
      /\ (~LazyReturn(t) => map_' = map_)

C32_GetRemovesOnlyItsExpiredKey == [][C32_Step]_vars

C32_Witness ==
  /\ ev.op = "get" /\ ev.path = "lazy" /\ ev.prior # {}
  /\ ev.key \notin DOMAIN map_
  /\ DOMAIN map_ # {}

\* C33: a worker that executes a task does not hold queue_mutex_: whoever
\* holds it is the submitter or a worker between its lock and its dequeue,
\* so while every worker is inside a task the mutex is free or with the
\* submitter, and a worker blocked in the wait does not hold it either.
C33_TaskRunsOutsideTheLock ==
  /\ \A w \in Workers :
       queue_mutex_ = w => wpc[w] \in {"pred", "block", "decide"}
  /\ ((\A w \in Workers : wpc[w] = "run")
        => queue_mutex_ \in {NoThread, Owner})

C33_Witness ==
  /\ \A w \in Workers : wpc[w] = "run"
  /\ opc = "notify_one"
  /\ task_queue_ # <<>>

\* worker w returns from worker_loop in this transition
WorkerExits(w) == wpc[w] # "exited" /\ wpc'[w] = "exited"

\* C34: a worker leaves its loop only in a step taken with the stop flag set
\* and the queue empty; a worker that passes the wait with a non-empty queue
\* dequeues one task and goes on to execute it, also when the stop flag is
\* set; while the flag is unset no worker has exited.
C34_Step ==
  \A w \in Workers :
    /\ WorkerExits(w) =>
         stop_requested_ /\ task_queue_ = <<>> /\ queue_mutex_ = w
    /\ (wpc[w] = "decide" /\ wpc'[w] # "decide" /\ task_queue_ # <<>>) =>
         /\ wpc'[w] = "run"
         /\ wtask'[w] = front(task_queue_)
         /\ task_queue_' = pop(task_queue_)

C34_WorkerExitsOnlyWhenDrained ==
  /\ [](~stop_requested_ => \A w \in Workers : wpc[w] # "exited")
  /\ [][C34_Step]_vars

C34_Witness ==
  /\ stop_requested_
  /\ \E w \in Workers : wpc[w] = "run"
  /\ \E w \in Workers : wpc[w] = "exited"

\* thread t is inside a read operation of the map (get, for_each under
\* keys, size), between taking and releasing the lock
InRead(t) == pc[t] \in {"get_find", "keys_scan", "size_read"}

\* thread t is inside a mutating operation of the map (set, remove, the
\* remove of a lazy deletion, remove_if under cleanup_expired)
InWrite(t) == pc[t] \in {"set_assign", "remove_erase", "get_erase", "sweep_scan"}

\* C35: the threads inside read operations are exactly the shared holders of
\* the mutex and the thread inside a mutating operation is its exclusive
\* holder, for the whole body of the operation; while a thread is inside a
\* mutating operation no other thread is inside any map operation.
C35_LockDiscipline ==
  /\ \A t \in Threads : InRead(t) <=> t \in mutex_.readers
  /\ \A t \in Threads : InWrite(t) <=> mutex_.writer = t
  /\ \A t, u \in Threads : InWrite(t) /\ u # t => ~InWrite(u) /\ ~InRead(u)

\* two readers inside different read operations together
C35_Witness ==
  /\ pc["t1"] = "get_find" /\ pc["t2"] = "keys_scan"
  /\ mutex_.readers = Threads

\* entry e has an expiry time and the clock reading r has reached it
Due(e, r) == e.expires_at # NoExpiry /\ r >= e.expires_at

\* the keys a traversal by thread t inspects in this step
Visited(t) == loc[t].rest \ loc'[t].rest

\* C36: get, keys and cleanup_expired each judge an entry by the clock
\* reading they take for it, with the same inclusive test: when the reading
\* is at or after expires_at (the reading equal to expires_at included) get
\* goes on to return not_found, keys omits the key and cleanup_expired
\* removes the entry; at an earlier reading (or without expiry) get returns
\* the value, keys lists the key and cleanup_expired keeps the entry.
C36_Step ==
  \A t \in Threads :
    /\ (pc[t] = "get_is_expired" /\ pc'[t] # pc[t]) =>
         IF Due(loc[t].entry, now)
         THEN pc'[t] = "get_remove"
         ELSE ev'.op = "get" /\ ev'.t = t /\ ev'.res = loc[t].entry.value
    /\ (pc[t] \in {"get_remove", "get_erase"} /\ pc'[t] = "idle") =>
         ev'.op = "get" /\ ev'.t = t /\ ev'.res = NotFound
    /\ (pc[t] = "keys_scan" /\ pc'[t] = "keys_scan") =>
         \A k \in Visited(t) :
           loc'[t].result = IF Due(map_[k], now)
                            THEN loc[t].result
                            ELSE Append(loc[t].result, k)
    /\ (pc[t] = "sweep_scan" /\ pc'[t] = "sweep_scan") =>
         \A k \in Visited(t) :
           map_' = IF Due(map_[k], now) THEN erase(map_, k) ELSE map_

C36_InclusiveExpiryEverywhere == [][C36_Step]_vars

\* a sweep has removed an entry at the reading equal to its expires_at
C36_Witness ==
  /\ ev.op = "sweep_visit" /\ ev.removed
  /\ \E e \in ev.prior : e.expires_at = ev.time

\* start() reaching the thread assignment while the thread started by an
\* earlier start() has not been joined
SecondStart == mpc = "start_thread" /\ cleanup_thread_

\* C37: a start() called while the loop of an earlier start() is still
\* running returns and leaves the sweeper with one running loop, which the
\* next stop() can stop and join.
C37_Step ==
  (SecondStart /\ mpc' # mpc) =>
     /\ mpc' = "idle"
     /\ cleanup_thread_'
     /\ loop' \notin {"none", "exited"}

C37_SecondStartKeepsOneLoop == [][C37_Step]_vars

\* str is an integer numeral: an optional sign followed by digits only
IsInteger(str) ==
  LET u == IF str # <<>> /\ Head(str) \in {"+", "-"} THEN Tail(str) ELSE str
  IN u # <<>> /\ \A i \in 1 .. Len(u) : u[i] \in DigitSet

\* the int n is the number the integer numeral str writes
Writes(str, n) ==
  LET negative == Head(str) = "-"
      ds == IF Head(str) \in {"+", "-"} THEN Tail(str) ELSE str
  IN /\ ~exceeds(ds, IF negative THEN INT_MIN_DIGITS ELSE INT_MAX_DIGITS)
     /\ n = IF negative THEN -decimal(ds) ELSE decimal(ds)

\* ttl is the ttl_seconds the claim states for request req
TtlAsStated(req, ttl) ==
  LET h == get_header(req, X_TTL) IN
  IF h = {} THEN ttl = 0
  ELSE IF IsInteger(the(h)) THEN Writes(the(h), ttl)
  ELSE ttl = 0

\* C38: for a non-empty key, GET answers 200 with the value iff store.get
\* returned a value and 404 otherwise; DELETE answers 200 iff store.remove
\* returned true and 404 otherwise; PUT has stored the body under the key
\* and answers 201, with ttl_seconds the integer the X-TTL header writes, and
\* 0 when the header is absent or is not an integer numeral.
C38_Step ==
  /\ (rpc = "get_key" /\ rpc' = "respond" /\ params.path_suffix # <<>>) =>
       /\ ev.op = "get" /\ ev.key = name_of(params.path_suffix)
       /\ IF ev.res # NotFound
          THEN response' = ok(text(ev.res))
          ELSE response'.status_code_ = 404
  /\ (rpc = "delete_key" /\ rpc' = "respond" /\ params.path_suffix # <<>>) =>
       /\ ev.op = "remove" /\ ev.key = name_of(params.path_suffix)
       /\ response'.status_code_ = IF ev.res THEN 200 ELSE 404
  /\ (rpc = "put_key" /\ rpc' = "respond" /\ params.path_suffix # <<>>) =>
       /\ response'.status_code_ = 201
       /\ ev.op = "set" /\ ev.key = name_of(params.path_suffix)
       /\ ev.value = name_of(the(request).body_)
       /\ TtlAsStated(the(request), ev.ttl)

C38_FrontEndMirrorsStore == [][C38_Step]_vars

\* C39: a GET request is routed to list_keys iff its path is exactly "/kv",
\* and a GET for a path that is neither "/kv" nor under "/kv/" gets 404 from
\* the router.
C39_Step ==
  \A r \in request :
    (rpc = "route" /\ rpc' # "route" /\ r.method_ = "GET") =>
      /\ (rpc' = "list_keys") <=> (r.path_ = KV)
      /\ (r.path_ # KV /\ ~starts_with(r.path_, KV_SLASH)) =>
           (rpc' = "respond" /\ response'.status_code_ = 404)

C39_ListKeysOnlyForExactPath == [][C39_Step]_vars

\* the first line of raw: what precedes its first line feed
FirstLine(raw) ==
  IF find_char(raw, "\n") = 0 THEN raw
  ELSE SubSeq(raw, 1, find_char(raw, "\n") - 1)

\* the number of whitespace-separated tokens of line
TokenCount(line) ==
  Cardinality({i \in 1 .. Len(line) :
                 ~isspace(line[i]) /\ (i = 1 \/ isspace(line[i - 1]))})

\* the upper-case letter of a lower-case one, other characters unchanged
Capital(c) ==
  IF \E i \in DOMAIN LowerCase : LowerCase[i] = c
  THEN UpperCase[CHOOSE i \in DOMAIN LowerCase : LowerCase[i] = c]
  ELSE c

\* a and b spell the same name, upper and lower case not told apart
SameName(a, b) ==
  Len(a) = Len(b) /\ \A i \in 1 .. Len(a) : Capital(a[i]) = Capital(b[i])

\* C40: parse returns no request for the empty input and for an input whose
\* first line has fewer than three whitespace-separated tokens, and returns
\* a request when the first line has three or more; get_header, called with
\* any upper/lower-case spelling of the name of a header the request holds,
\* returns that header's value.
C40_ParseAndHeaderLookup ==
  rpc = "parsed" =>
    /\ (raw_request = <<>> \/ TokenCount(FirstLine(raw_request)) < 3) =>
         request = {}
    /\ TokenCount(FirstLine(raw_request)) >= 3 => request # {}
    /\ lookup.called =>
         \A r \in request : \A h \in DOMAIN r.headers_ :
           SameName(h, lookup.name) => lookup.res = {r.headers_[h]}

\* a header written "Ab" in the input is found under another spelling
C40_Witness ==
  /\ rpc = "parsed" /\ lookup.called /\ lookup.res = {<<"v">>}
  /\ lookup.name \notin DOMAIN the(request).headers_
====
